---- MODULE Spec2Model ----
(***************************************************************************)
(* A model of the Pacifica SDK (hubertkirch/python-sdk): the signer        *)
(* (pacifica/auth.py), the request builder (pacifica/api/base.py,          *)
(* base_async.py) and the exchange operations (pacifica/api/exchange.py,   *)
(* exchange_async.py).                                                     *)
(*                                                                         *)
(* The SDK is a stateless translator: every call builds its payload, signs *)
(* it, sends it, and returns.  A behaviour of the model is one client (its *)
(* auth and its clock reading) performing one call; the state after the    *)
(* call records what was signed, what was sent and what came back.         *)
(***************************************************************************)
EXTENDS Integers, Sequences, FiniteSets, TLC

VARIABLES
    auth,      \* the client's PacificaAuth (client.auth), or no signer
    now,       \* int(time.time() * 1000) as read during the call
    pc,        \* "idle" before the call, "returned" or "raised" after it, or where it waits
    op,        \* the call: [name, args], args a Python dict of the arguments
    signed,    \* the sign_message / sign_request calls that produced a signature
    sent,      \* the transport requests issued (session.request), in order
    result,    \* what the call returned or raised
    uuids,     \* number of uuid.uuid4() values drawn
    tasks,     \* the coroutines asyncio.gather is running, in the order given to it
    retry,     \* the locals of retry_with_backoff, the calls of func and the sleeps made
    owned,     \* the order dicts the caller passed to bulk_orders, as they are now
    _loop      \* the event loop thread of OptimizedClient and the coroutines submitted to it

vars == <<auth, now, pc, op, signed, sent, result, uuids, tasks, retry, owned, _loop>>

-----------------------------------------------------------------------------
(* Python values.  Every value is a record of one shape, so that any two   *)
(* values can be compared: t is the Python type, s the text of a str (or   *)
(* the repr of a float), n the value of an int or bool, kids the entries   *)
(* of a dict (in insertion order) or the items of a list (keys "").        *)

Node(t, s, n, kids) == [t |-> t, s |-> s, n |-> n, kids |-> kids]

E(k, v) == [k |-> k, v |-> v]

PyNone == Node("None", "", 0, <<>>)

PyBool(b) == Node("bool", "", IF b THEN 1 ELSE 0, <<>>)

PyStr(s) == Node("str", s, 0, <<>>)

PyInt(n) == Node("int", "", n, <<>>)

\* a float, identified by its repr
PyNum(r) == Node("float", r, 0, <<>>)

\* "0" * n
RECURSIVE zeros(_)
zeros(n) == IF n <= 0 THEN "" ELSE "0" \o zeros(n - 1)

\* repr(x) of the float x = d * 10^e, d one decimal digit from 1 to 9, as
\* float.__repr__ gives it: the shortest digits, in exponent form when the
\* decimal point lies more than 3 places left of them or more than 16
\* places right of their start
float_repr(d, e) ==
    IF e + 1 <= -4
    THEN d \o "e-" \o (IF 0 - e < 10 THEN "0" ELSE "") \o ToString(0 - e)
    ELSE IF e + 1 > 16 THEN d \o "e+" \o ToString(e)
    ELSE IF e < 0 THEN "0." \o zeros(0 - e - 1) \o d
    ELSE d \o zeros(e) \o ".0"

\* the float d * 10^e
Float(d, e) == PyNum(float_repr(d, e))

PyDict(entries) == Node("dict", "", 0, entries)

PyList(items) == Node("list", "", 0, [i \in 1..Len(items) |-> E("", items[i])])

Items(v) == [i \in 1..Len(v.kids) |-> v.kids[i].v]

\* bool(v)
Truthy(v) ==
    CASE v.t = "None" -> FALSE
      [] v.t = "bool" -> v.n = 1
      [] v.t = "int" -> v.n # 0
      [] v.t = "str" -> v.s # ""
      [] v.t = "float" -> v.s \notin {"0.0", "-0.0"}
      [] OTHER -> v.kids # <<>>

\* str(v) for the values the SDK formats: a str is itself, a float or an int
\* gives its repr, None gives "None"
IntRepr(n) == CASE n = 0 -> "0" [] n = 1 -> "1" [] n = 100 -> "100" [] OTHER -> "int"

str(v) ==
    CASE v.t = "str" -> v
      [] v.t = "float" -> PyStr(v.s)
      [] v.t = "int" -> PyStr(IntRepr(v.n))
      [] v.t = "None" -> PyStr("None")
      [] v.t = "bool" -> PyStr(IF v.n = 1 THEN "True" ELSE "False")
      [] OTHER -> PyStr("object")

\* list(d.keys())
Keys(d) == [i \in 1..Len(d.kids) |-> d.kids[i].k]

KeySet(d) == {d.kids[i].k : i \in 1..Len(d.kids)}

\* k in d
Has(d, k) == d.t = "dict" /\ k \in KeySet(d)

\* d[k]
Get(d, k) == d.kids[CHOOSE i \in 1..Len(d.kids) : d.kids[i].k = k].v

\* d.get(k, default)
GetOr(d, k, default) == IF Has(d, k) THEN Get(d, k) ELSE default

\* d[k] = v: a present key keeps its position, a new key goes last
Put(d, k, v) ==
    IF Has(d, k)
    THEN PyDict([i \in 1..Len(d.kids) |-> IF d.kids[i].k = k THEN E(k, v) ELSE d.kids[i]])
    ELSE PyDict(Append(d.kids, E(k, v)))

\* del d[k]
Del(d, k) == PyDict(SelectSeq(d.kids, LAMBDA e : e.k # k))

\* {**a, **b}
RECURSIVE MergeFrom(_, _, _)
MergeFrom(a, b, i) ==
    IF i > Len(b.kids) THEN a
    ELSE MergeFrom(Put(a, b.kids[i].k, b.kids[i].v), b, i + 1)

Merge(a, b) == MergeFrom(a, b, 1)

-----------------------------------------------------------------------------
(* String order.  Python compares str by code point; the table lists, in   *)
(* ascending order, every string the model uses as a dict key.             *)

KeyOrder ==
    << "a", "account", "action", "agent_wallet", "amount", "b", "builder_code",
       "builder_fee", "client_order_id", "data", "expiry_window", "is_isolated",
       "leverage", "nonce", "order_id", "post_only", "price", "reduce_only",
       "side", "signature", "slippage_percent", "symbol", "tif", "timestamp",
       "type", "z" >>

Rank(k) == CHOOSE i \in 1..Len(KeyOrder) : KeyOrder[i] = k

StrLess(a, b) == Rank(a) < Rank(b)

\* sorted(ks) for a list of distinct strings
RECURSIVE sorted(_)
sorted(ks) ==
    IF ks = <<>> THEN <<>>
    ELSE LET m == CHOOSE i \in 1..Len(ks) : \A j \in 1..Len(ks) : ~StrLess(ks[j], ks[i])
         IN <<ks[m]>> \o sorted([i \in 1..(Len(ks) - 1) |-> IF i < m THEN ks[i] ELSE ks[i + 1]])

-----------------------------------------------------------------------------
(* pacifica/auth.py                                                        *)

\* PacificaAuth._sort_json_keys, with the mistake of not descending into lists
sort_json_keys_flat_lists(value) ==
    IF value.t = "dict"
    THEN LET ks == sorted(Keys(value))
         IN PyDict([i \in 1..Len(ks) |-> E(ks[i], Get(value, ks[i]))])
    ELSE value

RECURSIVE sort_json_keys_rec(_)
sort_json_keys_rec(value) ==
    CASE value.t = "dict" ->
           LET ks == sorted(Keys(value))
           IN PyDict([i \in 1..Len(ks) |-> E(ks[i], sort_json_keys_rec(Get(value, ks[i])))])
      [] value.t = "list" ->
           Node("list", "", 0,
                [i \in 1..Len(value.kids) |-> E("", sort_json_keys_rec(value.kids[i].v))])
      [] OTHER -> value

\* PacificaAuth._sort_json_keys
sort_json_keys(value) == sort_json_keys_rec(value)

\* json.dumps(value, separators=(",", ":")): the text as a sequence of tokens,
\* a scalar's token being the scalar (its JSON literal), the rest punctuation
Punct(s) == Node("punct", s, 0, <<>>)

RECURSIVE json_dumps(_)
RECURSIVE DumpEntries(_, _, _)
DumpEntries(v, i, isDict) ==
    IF i > Len(v.kids) THEN <<>>
    ELSE (IF i > 1 THEN <<Punct(",")>> ELSE <<>>)
         \o (IF isDict THEN <<PyStr(v.kids[i].k), Punct(":")>> ELSE <<>>)
         \o json_dumps(v.kids[i].v)
         \o DumpEntries(v, i + 1, isDict)

json_dumps(v) ==
    CASE v.t = "dict" -> <<Punct("{")>> \o DumpEntries(v, 1, TRUE) \o <<Punct("}")>>
      [] v.t = "list" -> <<Punct("[")>> \o DumpEntries(v, 1, FALSE) \o <<Punct("]")>>
      [] OTHER -> <<v>>

\* a str given by its tokens
PyText(tokens) == Node("text", "", 0, [i \in 1..Len(tokens) |-> E("", tokens[i])])

\* base58(keypair.sign_message(message.encode())): Ed25519 is deterministic,
\* the signature is a function of the key and of the exact bytes signed
KeypairSign(public_key, message) == Node("sig", public_key, 0, message.kids)

\* PacificaAuth.__init__
PacificaAuth(public_key, main_account) ==
    [present |-> TRUE, public_key |-> public_key, main_account |-> main_account]

\* client.auth = None (no private key given)
NoAuth == [present |-> FALSE, public_key |-> "", main_account |-> PyNone]

\* PacificaAuth.get_public_key
get_public_key(a) == PyStr(a.public_key)

\* PacificaAuth.is_agent_mode
is_agent_mode(a) == a.main_account # PyNone

\* PacificaAuth.get_account
get_account(a) == IF Truthy(a.main_account) THEN a.main_account ELSE PyStr(a.public_key)

\* PacificaAuth.get_agent_wallet
get_agent_wallet(a) == IF Truthy(a.main_account) THEN PyStr(a.public_key) ELSE PyNone

HeaderRequired == <<"type", "timestamp", "expiry_window">>

Raised(exc) == [raised |-> TRUE, exc |-> exc, value |-> PyNone]

Returned(v) == [raised |-> FALSE, exc |-> "", value |-> v]

\* PacificaAuth.sign_message: the record of the call, raised or signed
sign_message(a, header, payload) ==
    IF ~(\A i \in 1..Len(HeaderRequired) : Has(header, HeaderRequired[i]))
    THEN [raised |-> TRUE, exc |-> "ValueError", header |-> header, payload |-> payload,
          data |-> PyNone, sorted_data |-> PyNone, message |-> PyNone, signature |-> PyNone]
    ELSE LET data == Put(header, "data", payload)
             sorted_data == sort_json_keys(data)
             message == PyText(json_dumps(sorted_data))
         IN [raised |-> FALSE, exc |-> "", header |-> header, payload |-> payload,
             data |-> data, sorted_data |-> sorted_data, message |-> message,
             signature |-> KeypairSign(a.public_key, message)]

\* PacificaAuth.sign_request
sign_request(a, message) ==
    [raised |-> FALSE, exc |-> "", header |-> PyNone, payload |-> PyNone,
     data |-> PyNone, sorted_data |-> PyNone, message |-> message,
     signature |-> KeypairSign(a.public_key, message)]

-----------------------------------------------------------------------------
(* Transport: requests.Session.request / aiohttp.ClientSession.request.    *)
(* What the upstream does with a request is the environment's choice:      *)
(* network |-> TRUE is a connection error or timeout, otherwise an HTTP     *)
(* status and a JSON body.                                                  *)

Upstream(network, status, body) == [network |-> network, status |-> status, body |-> body]

SentRequest(method, endpoint, params, data, headers) ==
    [method |-> method, endpoint |-> endpoint, params |-> params, data |-> data,
     headers |-> headers]

\* "account" in str(response.url): the URL is the endpoint and the query
AccountInUrl(endpoint, params) ==
    \/ Has(params, "account") /\ Get(params, "account") # PyNone
    \/ endpoint \in {"/account/leverage", "/account/margin", "/account", "/account/settings",
                     "/api/v1/account", "/api/v1/account/settings",
                     "/api/v1/account/balance/history"}

\* what _request does with the upstream's answer (sync and async alike)
Answer(endpoint, params, upstream) ==
    CASE upstream.network -> Raised("PacificaAPIError")
      [] upstream.status = 404 /\ AccountInUrl(endpoint, params) ->
           IF params = PyNone THEN Raised("AttributeError")
           ELSE Raised("PacificaAccountNotFoundError")
      [] upstream.status >= 400 -> Raised("PacificaAPIError")
      [] ~Truthy(GetOr(upstream.body, "success", PyBool(TRUE))) -> Raised("PacificaAPIError")
      [] OTHER -> Returned(upstream.body)

\* PacificaAuth.get_auth_headers()
get_auth_headers(a) == PyDict(<<E("X-Account", PyStr(a.public_key))>>)

\* BaseAPIClient._request: [rv, sent]
request(a, method, endpoint, params, data, authenticated, additional_headers, upstream) ==
    LET h0 == IF authenticated /\ a.present THEN get_auth_headers(a) ELSE PyDict(<<>>)
        headers == IF Truthy(additional_headers) THEN Merge(h0, additional_headers) ELSE h0
        p0 == IF a.present /\ params = PyNone THEN PyDict(<<>>) ELSE params
        p1 == IF a.present /\ ~Has(p0, "account") THEN Put(p0, "account", get_account(a)) ELSE p0
    IN [rv |-> Answer(endpoint, p1, upstream),
        sent |-> SentRequest(method, endpoint, p1, data, headers)]

\* BaseAsyncAPIClient._request: [rv, sent]
request_async(a, method, endpoint, params, data, authenticated, additional_headers, upstream) ==
    LET h0 == IF authenticated /\ a.present THEN get_auth_headers(a) ELSE PyDict(<<>>)
        headers == IF Truthy(additional_headers) THEN Merge(h0, additional_headers) ELSE h0
        p0 == IF a.present /\ params = PyNone THEN PyDict(<<>>) ELSE params
        p1 == IF a.present /\ Truthy(p0) /\ ~Has(p0, "account")
              THEN Put(p0, "account", get_account(a)) ELSE p0
    IN [rv |-> Answer(endpoint, p1, upstream),
        sent |-> SentRequest(method, endpoint, p1, data, headers)]

\* BaseAPIClient.post
post(a, endpoint, data, authenticated, headers, upstream) ==
    request(a, "POST", endpoint, PyNone, data, authenticated, headers, upstream)

\* BaseAsyncAPIClient.post
post_async(a, endpoint, data, authenticated, headers, upstream) ==
    request_async(a, "POST", endpoint, PyNone, data, authenticated, headers, upstream)

-----------------------------------------------------------------------------
(* Request builder: pacifica/api/base.py, pacifica/api/base_async.py.      *)
(* An operation of some length is written as a chain of operators, each    *)
(* taking what the lines before it computed.                                *)

Built(raised, exc, req, signs) ==
    [raised |-> raised, exc |-> exc, request |-> req, signs |-> signs]

SignatureHeader(timestamp, signature_type) ==
    PyDict(<< E("timestamp", PyInt(timestamp)), E("expiry_window", PyInt(5000)),
              E("type", PyStr(signature_type)) >>)

\* BaseAPIClient._build_request_with_auth, lines 184-199, sm the signed message
envelope(a, data, timestamp, sm) ==
    IF sm.raised THEN Built(TRUE, sm.exc, PyNone, <<>>)
    ELSE Built(FALSE, "",
               Put(Merge(PyDict(<< E("account", get_account(a)),
                                   E("signature", sm.signature),
                                   E("timestamp", PyInt(timestamp)),
                                   E("expiry_window", PyInt(5000)) >>), data),
                   "agent_wallet",
                   IF is_agent_mode(a) THEN get_agent_wallet(a) ELSE PyNone),
               <<sm>>)

\* BaseAPIClient._build_request_with_auth: [raised, exc, request, signs]
build_request_with_auth(a, data, signature_type, timestamp) ==
    IF ~a.present THEN Built(FALSE, "", data, <<>>)
    ELSE envelope(a, data, timestamp,
                  sign_message(a, SignatureHeader(timestamp, signature_type), data))

\* BaseAsyncAPIClient._build_request_with_auth, lines 215-228
envelope_async(a, data, timestamp, sm) ==
    IF sm.raised THEN Built(TRUE, sm.exc, PyNone, <<>>)
    ELSE Built(FALSE, "",
               Put(Merge(PyDict(<< E("account", get_account(a)),
                                   E("signature", sm.signature),
                                   E("timestamp", PyInt(timestamp)),
                                   E("expiry_window", PyInt(5000)) >>), data),
                   "agent_wallet",
                   IF is_agent_mode(a) THEN get_agent_wallet(a) ELSE PyNone),
               <<sm>>)

\* BaseAsyncAPIClient._build_request_with_auth: [raised, exc, request, signs]
build_request_with_auth_async(a, data, signature_type, timestamp) ==
    IF ~a.present THEN Built(FALSE, "", data, <<>>)
    ELSE envelope_async(a, data, timestamp,
                        sign_message(a, SignatureHeader(timestamp, signature_type), data))

-----------------------------------------------------------------------------
(* Strings.  TLC's strings are atoms, so the str methods the SDK uses are  *)
(* given by what they return on the strings of the model.                  *)

\* s.lower()
lower(s) ==
    CASE s \in {"limit", "LIMIT", "Limit"} -> "limit"
      [] s \in {"market", "MARKET", "Market"} -> "market"
      [] OTHER -> s

\* s.startswith("0x")
startswith_0x(s) == s \in {"0x", "0xabc", "0x1f"}

\* sub in s, for two strings of the model (none is a proper part of another)
substring(sub, s) == sub = s \/ sub = ""

\* str(uuid.uuid4()), the k-th value drawn: a str no caller supplies
uuid4(k) == Node("str", "uuid4", k, <<>>)

-----------------------------------------------------------------------------
(* Exchange operations: pacifica/api/exchange.py.  Every operation gives   *)
(* the record of one call: rv (returned or raised), signs (the signatures  *)
(* made, in order), sends (the transport requests, in order) and uuids     *)
(* (how many uuid4 values it drew).                                        *)

Outcome(rv, signs, sends, n) == [rv |-> rv, signs |-> signs, sends |-> sends, uuids |-> n]

\* a generator that hands every non-empty id through, a 0x one too
generate_client_order_id_keeps_0x(cloid, k) ==
    IF Truthy(cloid)
    THEN [id |-> cloid, drew |-> 0]
    ELSE [id |-> uuid4(k + 1), drew |-> 1]

\* ExchangeAPI._generate_client_order_id: [id, drew]
generate_client_order_id(cloid, k) ==
    IF Truthy(cloid)
    THEN IF startswith_0x(cloid.s)
         THEN [id |-> uuid4(k + 1), drew |-> 1]
         ELSE [id |-> cloid, drew |-> 0]
    ELSE [id |-> uuid4(k + 1), drew |-> 1]

\* a local variable that may not have been assigned yet
Unbound == [bound |-> FALSE, v |-> PyNone]

Bound(v) == [bound |-> TRUE, v |-> v]

Step(exc, order_data, tif) == [exc |-> exc, order_data |-> order_data, tif |-> tif]

\* the order_type branch, once a market order is recognised
market_branch(order_data) ==
    Step("", IF Has(order_data, "price") THEN Del(order_data, "price") ELSE order_data,
         Bound(PyNone))

\* ExchangeAPI.order, lines 83-115: the order_type branch
order_type_branch(order_data, order_type, limit_px) ==
    CASE order_type.t = "str" ->
           IF lower(order_type.s) = "limit"
           THEN IF limit_px = PyNone
                THEN Step("ValueError", order_data, Unbound)
                ELSE Step("", Put(Put(order_data, "price", str(limit_px)), "tif", PyStr("GTC")),
                          Bound(PyStr("GTC")))
           ELSE IF lower(order_type.s) = "market"
           THEN market_branch(Put(order_data, "slippage_percent", PyStr("0.5")))
           ELSE Step("", order_data, Unbound)
      [] order_type.t = "dict" ->
           IF Has(order_type, "limit")
           THEN IF limit_px = PyNone
                THEN Step("ValueError", order_data, Unbound)
                ELSE Step("", Put(Put(order_data, "price", str(limit_px)), "tif",
                                  GetOr(Get(order_type, "limit"), "tif", PyStr("GTC"))),
                          Bound(GetOr(Get(order_type, "limit"), "tif", PyStr("GTC"))))
           ELSE IF Has(order_type, "market")
           THEN market_branch(Put(order_data, "slippage_percent",
                                  str(GetOr(GetOr(order_type, "market", PyDict(<<>>)),
                                            "slippage", PyStr("0.5")))))
           ELSE Step("", order_data, Unbound)
      [] OTHER -> Step("", order_data, Unbound)

\* ExchangeAPI.order, lines 117-132: the TIF mapping
order_tif_mapping(order_data, tif) ==
    IF Truthy(tif)
    THEN CASE tif = PyStr("Alo") ->
                Put(Put(order_data, "post_only", PyBool(TRUE)), "tif", PyStr("ALO"))
           [] tif = PyStr("Ioc") -> Put(order_data, "tif", PyStr("IOC"))
           [] tif = PyStr("Tob") -> Put(order_data, "tif", PyStr("TOB"))
           [] tif \in {PyStr("Gtc"), PyStr("GTC")} -> Put(order_data, "tif", PyStr("GTC"))
           [] OTHER -> order_data
    ELSE IF Has(order_data, "slippage_percent") /\ Has(order_data, "tif")
         THEN Del(order_data, "tif")
         ELSE order_data

\* ExchangeAPI.order, lines 134-138 (and batch_orders, lines 238-242)
signature_type_of(order_data) ==
    IF Has(order_data, "slippage_percent") THEN "create_market_order" ELSE "create_limit_order"

OkReturn(type, data) ==
    PyDict(<< E("status", PyStr("ok")),
              E("response", PyDict(<< E("type", PyStr(type)), E("data", data) >>)) >>)

Resting(oid, cloid) == PyDict(<<E("resting", PyDict(<<E("oid", oid), E("cloid", cloid)>>))>>)

\* ExchangeAPI.order, lines 147-152: the order id of the response
order_id_of(data) == IF data.t = "dict" THEN GetOr(data, "order_id", PyNone) ELSE PyNone

\* ExchangeAPI.order, lines 147-167: the result
order_result(response, client_order_id) ==
    OkReturn("order", PyDict(<<E("statuses", PyList(<<
        Resting(order_id_of(IF response.t = "dict"
                            THEN GetOr(response, "data", PyDict(<<>>)) ELSE PyNone),
                client_order_id) >>))>>))

\* BaseAsyncAPIClient.retry_with_backoff around a request the upstream answers
\* the same way each time: the requests that go out
retry_with_backoff(io, max_retries) ==
    IF io.rv.raised THEN [i \in 1..max_retries |-> io.sent] ELSE <<io.sent>>

\* an order placed through retry_with_backoff with its default of 3 attempts
order_sent_with_retry(cid, signs, io) ==
    IF io.rv.raised THEN Outcome(io.rv, signs, retry_with_backoff(io, 3), cid.drew)
    ELSE Outcome(Returned(order_result(io.rv.value, cid.id)), signs,
                 retry_with_backoff(io, 3), cid.drew)

\* ExchangeAPI.order, lines 145-167, io the transport's answer
order_sent(cid, signs, io) ==
    IF io.rv.raised THEN Outcome(io.rv, signs, <<io.sent>>, cid.drew)
    ELSE Outcome(Returned(order_result(io.rv.value, cid.id)), signs, <<io.sent>>, cid.drew)

\* ExchangeAPI.order, lines 143-145, built the authenticated request
order_built(a, cid, signature_type, built, upstream) ==
    IF built.raised THEN Outcome(Raised(built.exc), <<>>, <<>>, cid.drew)
    ELSE order_sent(cid, built.signs,
                    post(a, "/orders/create", built.request, FALSE,
                         PyDict(<<E("type", PyStr(signature_type))>>), upstream))

\* ExchangeAPI.order, lines 134-141, order_data the final payload
order_mapped(a, cid, order_data, timestamp, upstream) ==
    order_built(a, cid, signature_type_of(order_data),
                build_request_with_auth(a, order_data, signature_type_of(order_data),
                                        timestamp),
                upstream)

\* ExchangeAPI.order, lines 117-132, br the outcome of the order_type branch
order_branched(a, cid, br, timestamp, upstream) ==
    CASE br.exc # "" -> Outcome(Raised(br.exc), <<>>, <<>>, cid.drew)
      [] ~br.tif.bound -> Outcome(Raised("UnboundLocalError"), <<>>, <<>>, cid.drew)
      [] OTHER -> order_mapped(a, cid, order_tif_mapping(br.order_data, br.tif.v),
                               timestamp, upstream)

\* ExchangeAPI.order, lines 64-72
order_data_of(name, is_buy, sz, reduce_only, client_order_id) ==
    PyDict(<< E("symbol", name),
              E("side", PyStr(IF Truthy(is_buy) THEN "bid" ELSE "ask")),
              E("amount", str(sz)),
              E("reduce_only", reduce_only),
              E("client_order_id", client_order_id) >>)

\* ExchangeAPI.order, lines 64-115, cid the client order id
order_with_id(a, args, cid, timestamp, upstream) ==
    IF Truthy(Get(args, "builder"))
       /\ (Get(args, "builder").t # "dict" \/ ~Has(Get(args, "builder"), "b"))
    THEN Outcome(Raised("ValueError"), <<>>, <<>>, cid.drew)
    ELSE order_branched(a, cid,
             order_type_branch(
                 IF Truthy(Get(args, "builder"))
                 THEN Put(order_data_of(Get(args, "name"), Get(args, "is_buy"), Get(args, "sz"),
                                        Get(args, "reduce_only"), cid.id),
                          "builder_code", Get(Get(args, "builder"), "b"))
                 ELSE order_data_of(Get(args, "name"), Get(args, "is_buy"), Get(args, "sz"),
                                    Get(args, "reduce_only"), cid.id),
                 Get(args, "order_type"), Get(args, "limit_px")),
             timestamp, upstream)

\* ExchangeAPI.order
order(a, args, timestamp, upstream, k) ==
    order_with_id(a, args, generate_client_order_id(Get(args, "cloid"), k),
                  timestamp, upstream)

\* ExchangeAPI.batch_orders, lines 204-224: the order_type branch of one item;
\* tif is the loop's local variable, still holding what the item before left
batch_order_type_branch(order_data, order_req, order_type, tif) ==
    CASE order_type.t = "str" ->
           IF lower(order_type.s) = "limit"
           THEN IF ~Has(order_req, "limit_px") THEN Step("KeyError", order_data, tif)
                ELSE Step("", Put(Put(order_data, "price", str(Get(order_req, "limit_px"))),
                                  "tif", PyStr("GTC")),
                          Bound(PyStr("GTC")))
           ELSE IF lower(order_type.s) = "market"
           THEN Step("", Put(order_data, "slippage_percent", PyStr("0.5")), Bound(PyNone))
           ELSE Step("", order_data, tif)
      [] order_type.t = "dict" ->
           IF Has(order_type, "limit")
           THEN IF ~Has(order_req, "limit_px") THEN Step("KeyError", order_data, tif)
                ELSE Step("", Put(Put(order_data, "price", str(Get(order_req, "limit_px"))),
                                  "tif", GetOr(Get(order_type, "limit"), "tif", PyStr("GTC"))),
                          Bound(GetOr(Get(order_type, "limit"), "tif", PyStr("GTC"))))
           ELSE IF Has(order_type, "market")
           THEN Step("", Put(order_data, "slippage_percent", PyStr("0.5")), Bound(PyNone))
           ELSE Step("", order_data, tif)
      [] OTHER -> Step("", order_data, tif)

\* ExchangeAPI.batch_orders, lines 226-236: the TIF mapping of one item
batch_tif_mapping(order_data, tif) ==
    IF Truthy(tif)
    THEN CASE tif = PyStr("Alo") ->
                Put(Put(order_data, "post_only", PyBool(TRUE)), "tif", PyStr("ALO"))
           [] tif = PyStr("Ioc") -> Put(order_data, "tif", PyStr("IOC"))
           [] tif \in {PyStr("Gtc"), PyStr("GTC")} -> Put(order_data, "tif", PyStr("GTC"))
           [] tif = PyStr("Tob") -> Put(order_data, "tif", PyStr("TOB"))
           [] OTHER -> order_data
    ELSE order_data

DefaultOrderType == PyDict(<<E("limit", PyDict(<<E("tif", PyStr("GTC"))>>))>>)

\* one turn of the batch loop: [exc, tif, action, signs, drew]
Turn(exc, tif, action, signs, drew) ==
    [exc |-> exc, tif |-> tif, action |-> action, signs |-> signs, drew |-> drew]

\* ExchangeAPI.batch_orders, lines 245-251, built the authenticated request
batch_item_built(cid, tif, built) ==
    IF built.raised THEN Turn(built.exc, tif, PyNone, <<>>, cid.drew)
    ELSE Turn("", tif, PyDict(<<E("type", PyStr("Create")), E("data", built.request)>>),
              built.signs, cid.drew)

\* ExchangeAPI.batch_orders, lines 238-245, order_data the item's final payload
batch_item_mapped(a, cid, tif, order_data, timestamp) ==
    batch_item_built(cid, tif,
        build_request_with_auth(a, order_data, signature_type_of(order_data), timestamp))

\* ExchangeAPI.batch_orders, lines 226-236, br the outcome of the order_type branch
batch_item_branched(a, cid, tif, br, timestamp) ==
    CASE br.exc # "" -> Turn(br.exc, tif, PyNone, <<>>, cid.drew)
      [] ~br.tif.bound -> Turn("UnboundLocalError", tif, PyNone, <<>>, cid.drew)
      [] OTHER -> batch_item_mapped(a, cid, br.tif,
                                    batch_tif_mapping(br.order_data, br.tif.v), timestamp)

\* ExchangeAPI.batch_orders, lines 186-193
batch_order_data_of(order_req, client_order_id) ==
    PyDict(<< E("symbol", IF Truthy(GetOr(order_req, "name", PyNone))
                          THEN Get(order_req, "name")
                          ELSE GetOr(order_req, "coin", PyNone)),
              E("side", PyStr(IF Truthy(Get(order_req, "is_buy")) THEN "bid" ELSE "ask")),
              E("amount", str(Get(order_req, "sz"))),
              E("reduce_only", GetOr(order_req, "reduce_only", PyBool(FALSE))),
              E("client_order_id", client_order_id) >>)

\* ExchangeAPI.batch_orders, lines 196-202, on a builder that passed the check
batch_with_builder(order_data, order_req) ==
    IF ~Has(order_req, "builder") THEN order_data
    ELSE IF Has(Get(order_req, "builder"), "f")
    THEN Put(Put(order_data, "builder_code", Get(Get(order_req, "builder"), "b")),
             "builder_fee", Get(Get(order_req, "builder"), "f"))
    ELSE Put(order_data, "builder_code", Get(Get(order_req, "builder"), "b"))

\* ExchangeAPI.batch_orders, lines 186-251, cid the client order id
batch_item_with_id(a, order_req, tif, cid, timestamp) ==
    CASE ~Has(order_req, "is_buy") \/ ~Has(order_req, "sz") ->
           Turn("KeyError", tif, PyNone, <<>>, cid.drew)
      [] Has(order_req, "builder")
         /\ (Get(order_req, "builder").t # "dict" \/ ~Has(Get(order_req, "builder"), "b")) ->
           Turn("ValueError", tif, PyNone, <<>>, cid.drew)
      [] OTHER ->
           batch_item_branched(a, cid, tif,
               batch_order_type_branch(
                   batch_with_builder(batch_order_data_of(order_req, cid.id), order_req),
                   order_req, GetOr(order_req, "order_type", DefaultOrderType), tif),
               timestamp)

\* ExchangeAPI.batch_orders, lines 183-251: one turn of the loop
batch_item(a, order_req, tif, timestamp, k) ==
    batch_item_with_id(a, order_req, tif,
                       generate_client_order_id(GetOr(order_req, "cloid", PyNone), k),
                       timestamp)

Loop(exc, actions, signs, drew) ==
    [exc |-> exc, actions |-> actions, signs |-> signs, drew |-> drew]

\* ExchangeAPI.batch_orders, lines 180-251: the loop over the orders, st what
\* the turns so far made, tif the loop's local variable
RECURSIVE batch_loop(_, _, _, _, _, _)
batch_loop_turn(a, orders, i, st, it, timestamp) ==
    IF it.exc # "" THEN Loop(it.exc, st.actions, st.signs, st.drew + it.drew)
    ELSE batch_loop(a, orders, i + 1, it.tif,
                    Loop("", Append(st.actions, it.action), st.signs \o it.signs,
                         st.drew + it.drew),
                    timestamp)

batch_loop(a, orders, i, tif, st, timestamp) ==
    IF i > Len(orders) THEN st
    ELSE batch_loop_turn(a, orders, i, st,
                         batch_item(a, orders[i], tif, timestamp, st.drew), timestamp)

\* ExchangeAPI.batch_orders, lines 274-288: the status of one upstream result
batch_status(res) ==
    IF res.t = "dict" /\ Truthy(GetOr(res, "success", PyNone))
    THEN Resting(GetOr(res, "order_id", PyNone), GetOr(res, "client_order_id", PyNone))
    ELSE PyDict(<<E("error", IF res.t = "dict"
                             THEN GetOr(res, "error", PyStr("Unknown error"))
                             ELSE PyStr("Unknown error"))>>)

\* ExchangeAPI.batch_orders, lines 261-272: the results of the response
batch_results_of(data) ==
    CASE data.t = "dict" -> GetOr(data, "results", PyList(<<>>))
      [] data.t = "list" -> data
      [] OTHER -> PyList(<<>>)

\* ExchangeAPI.batch_orders, lines 274-296: the result
batch_statuses(results) ==
    OkReturn("batchOrder", PyDict(<<E("statuses",
        PyList([i \in 1..Len(results.kids) |-> batch_status(results.kids[i].v)]))>>))

\* ExchangeAPI.batch_orders, lines 257-296
batch_orders_result(response) ==
    batch_statuses(batch_results_of(IF response.t = "dict"
                                    THEN GetOr(response, "data", PyDict(<<>>)) ELSE PyNone))

\* ExchangeAPI.batch_orders, lines 255-296, io the transport's answer
batch_sent(loop, io, k) ==
    IF io.rv.raised THEN Outcome(io.rv, loop.signs, <<io.sent>>, loop.drew - k)
    ELSE Outcome(Returned(batch_orders_result(io.rv.value)), loop.signs, <<io.sent>>,
                 loop.drew - k)

\* ExchangeAPI.batch_orders, lines 253-296, loop the outcome of the loop
batch_looped(a, loop, upstream, k) ==
    IF loop.exc # "" THEN Outcome(Raised(loop.exc), loop.signs, <<>>, loop.drew - k)
    ELSE batch_sent(loop,
                    post(a, "/orders/batch", PyDict(<<E("actions", PyList(loop.actions))>>),
                         FALSE, PyNone, upstream),
                    k)

\* ExchangeAPI.batch_orders
batch_orders(a, args, timestamp, upstream, k) ==
    batch_looped(a, batch_loop(a, Items(Get(args, "orders")), 1, Unbound,
                               Loop("", <<>>, <<>>, k), timestamp),
                 upstream, k)

\* ExchangeAPI.cancel, lines 346-355, io the transport's answer
cancel_sent(signs, io) ==
    IF io.rv.raised THEN Outcome(io.rv, signs, <<io.sent>>, 0)
    ELSE Outcome(Returned(OkReturn("cancel",
                     PyDict(<<E("statuses", PyList(<<PyStr("success")>>))>>))),
                 signs, <<io.sent>>, 0)

\* ExchangeAPI.cancel, lines 343-355, built the authenticated request
cancel_built(a, built, upstream) ==
    IF built.raised THEN Outcome(Raised(built.exc), <<>>, <<>>, 0)
    ELSE cancel_sent(built.signs,
                     post(a, "/orders/cancel", built.request, FALSE, PyNone, upstream))

\* a cancel that asks for no identifier and sends whatever it was given
cancel_unchecked(a, args, timestamp, upstream, k) ==
    cancel_built(a, build_request_with_auth(a,
        PyDict(<< E("symbol", Get(args, "name")) >>
               \o (IF Get(args, "oid") # PyNone
                   THEN <<E("order_id", Get(args, "oid"))>> ELSE <<>>)
               \o (IF Get(args, "cloid") # PyNone
                   THEN <<E("client_order_id", Get(args, "cloid"))>> ELSE <<>>)),
        "cancel_order", timestamp), upstream)

\* ExchangeAPI.cancel
cancel(a, args, timestamp, upstream, k) ==
    CASE Truthy(Get(args, "oid")) ->
           cancel_built(a, build_request_with_auth(a,
               PyDict(<<E("symbol", Get(args, "name")), E("order_id", Get(args, "oid"))>>),
               "cancel_order", timestamp), upstream)
      [] Truthy(Get(args, "cloid")) ->
           cancel_built(a, build_request_with_auth(a,
               PyDict(<< E("symbol", Get(args, "name")),
                         E("client_order_id", Get(args, "cloid")) >>),
               "cancel_order", timestamp), upstream)
      [] OTHER -> Outcome(Raised("ValueError"), <<>>, <<>>, 0)

\* the arguments of a call cancel(name=.., oid=.., cloid=..)
CancelCall(name, oid, cloid) ==
    PyDict(<<E("name", name), E("oid", oid), E("cloid", cloid)>>)

BatchCancelReturn(statuses) ==
    OkReturn("batchCancel", PyDict(<<E("statuses", PyList(statuses))>>))

\* ExchangeAPI.batch_cancel, line 390: cancel_req.get("name") or cancel_req.get("coin")
batch_cancel_symbol(cancel_req) ==
    IF Truthy(GetOr(cancel_req, "name", PyNone))
    THEN Get(cancel_req, "name")
    ELSE GetOr(cancel_req, "coin", PyNone)

\* ExchangeAPI.batch_cancel, lines 399-407, out the outcome of the item's cancel
batch_cancel_status(out) ==
    [ status |-> IF out.rv.raised THEN PyStr("error")
                 ELSE IF GetOr(out.rv.value, "status", PyNone) = PyStr("ok")
                 THEN PyStr("success")
                 ELSE PyStr("error"),
      signs |-> out.signs, sends |-> out.sends ]

\* ExchangeAPI.batch_cancel, lines 388-407: one turn of the loop
batch_cancel_turn(a, cancel_req, timestamp, upstream) ==
    CASE Has(cancel_req, "oid") ->
           batch_cancel_status(cancel(a,
               CancelCall(batch_cancel_symbol(cancel_req), Get(cancel_req, "oid"), PyNone),
               timestamp, upstream, 0))
      [] Has(cancel_req, "cloid") ->
           batch_cancel_status(cancel(a,
               CancelCall(batch_cancel_symbol(cancel_req), PyNone, Get(cancel_req, "cloid")),
               timestamp, upstream, 0))
      [] OTHER -> [status |-> PyStr("error"), signs |-> <<>>, sends |-> <<>>]

\* the statuses, signed messages and requests of the loop so far
CancelLoop(statuses, signs, sends) == [statuses |-> statuses, signs |-> signs, sends |-> sends]

batch_cancel_after(st, turn) ==
    CancelLoop(Append(st.statuses, turn.status), st.signs \o turn.signs,
               st.sends \o turn.sends)

\* ExchangeAPI.batch_cancel, lines 385-407: the loop from item i on, upstreams[i]
\* the upstream's answer to the cancel of item i
RECURSIVE batch_cancel_loop(_, _, _, _, _, _)
batch_cancel_loop(a, cancels, i, st, timestamp, upstreams) ==
    IF i > Len(cancels) THEN st
    ELSE batch_cancel_loop(a, cancels, i + 1,
             batch_cancel_after(st, batch_cancel_turn(a, cancels[i], timestamp, upstreams[i])),
             timestamp, upstreams)

\* ExchangeAPI.batch_cancel, lines 409-415
batch_cancel_looped(st) ==
    Outcome(Returned(BatchCancelReturn(st.statuses)), st.signs, st.sends, 0)

\* ExchangeAPI.batch_cancel
batch_cancel(a, args, timestamp, upstreams, k) ==
    batch_cancel_looped(batch_cancel_loop(a, Items(Get(args, "cancels")), 1,
                                          CancelLoop(<<>>, <<>>, <<>>), timestamp, upstreams))

\* json.dumps(d, separators=(",", ":"), sort_keys=True)
json_dumps_sort_keys(d) == json_dumps(sort_json_keys_rec(d))

\* abs(x) on the floats of the model
abs(x) ==
    CASE x = PyNum("-5.0") -> PyNum("5.0")
      [] OTHER -> x

\* the status an account update reports for the response
update_status(response) ==
    PyStr(IF Truthy(GetOr(response, "success", PyNone)) THEN "ok" ELSE "err")

\* ExchangeAPI.update_leverage .. remove_margin, after the post
account_update_sent(signs, return_type, io) ==
    IF io.rv.raised THEN Outcome(io.rv, signs, <<io.sent>>, 0)
    ELSE Outcome(Returned(PyDict(<<
             E("status", update_status(io.rv.value)),
             E("response", PyDict(<< E("type", PyStr(return_type)),
                                     E("data", io.rv.value) >>)) >>)),
                 signs, <<io.sent>>, 0)

\* ExchangeAPI.update_leverage .. remove_margin, sm the signed request
account_update_signed(a, data, endpoint, header_type, return_type, sm, upstream) ==
    account_update_sent(<<sm>>, return_type,
        post(a, endpoint, Put(data, "signature", sm.signature), TRUE,
             PyDict(<<E("type", PyStr(header_type))>>), upstream))

\* ExchangeAPI.update_leverage .. remove_margin, the part the four share: sign
\* the data with sign_request, post it with the type header, report
account_update(a, data, endpoint, header_type, return_type, upstream) ==
    IF a.present
    THEN account_update_signed(a, data, endpoint, header_type, return_type,
             sign_request(a, PyText(json_dumps_sort_keys(Del(data, "signature")))), upstream)
    ELSE account_update_sent(<<>>, return_type,
             post(a, endpoint, data, TRUE, PyDict(<<E("type", PyStr(header_type))>>), upstream))

OwnKeyOrNone(a) == IF a.present THEN get_public_key(a) ELSE PyNone

\* ExchangeAPI.update_leverage
update_leverage(a, args, timestamp, upstream, k) ==
    account_update(a,
        PyDict(<< E("account", OwnKeyOrNone(a)), E("symbol", Get(args, "name")),
                  E("leverage", Get(args, "leverage")), E("timestamp", PyInt(timestamp)),
                  E("type", PyStr("update_leverage")) >>),
        "/account/leverage", "update_leverage", "updateLeverage", upstream)

\* ExchangeAPI.update_margin_mode
update_margin_mode(a, args, timestamp, upstream, k) ==
    account_update(a,
        PyDict(<< E("account", OwnKeyOrNone(a)), E("symbol", Get(args, "name")),
                  E("is_isolated", PyBool(~Truthy(Get(args, "is_cross")))),
                  E("timestamp", PyInt(timestamp)), E("type", PyStr("update_margin_mode")) >>),
        "/account/margin", "update_margin_mode", "updateMarginMode", upstream)

\* ExchangeAPI.add_margin
add_margin(a, args, timestamp, upstream, k) ==
    account_update(a,
        PyDict(<< E("account", OwnKeyOrNone(a)), E("symbol", Get(args, "name")),
                  E("amount", str(abs(Get(args, "amount")))), E("is_isolated", PyBool(TRUE)),
                  E("action", PyStr("add")), E("timestamp", PyInt(timestamp)),
                  E("type", PyStr("margin_action")) >>),
        "/account/margin", "margin_action", "addMargin", upstream)

\* ExchangeAPI.remove_margin
remove_margin(a, args, timestamp, upstream, k) ==
    account_update(a,
        PyDict(<< E("account", OwnKeyOrNone(a)), E("symbol", Get(args, "name")),
                  E("amount", str(abs(Get(args, "amount")))), E("is_isolated", PyBool(TRUE)),
                  E("action", PyStr("remove")), E("timestamp", PyInt(timestamp)),
                  E("type", PyStr("margin_action")) >>),
        "/account/margin", "margin_action", "removeMargin", upstream)

-----------------------------------------------------------------------------
(* Exchange operations: pacifica/api/exchange_async.py                     *)

\* key in container, for a str (substring) or a dict (key)
contains(container, key) ==
    IF container.t = "str" THEN substring(key, container.s) ELSE Has(container, key)

\* ExchangeAsyncAPI._generate_client_order_id: [id, drew]
generate_client_order_id_async(cloid, k) ==
    IF Truthy(cloid)
    THEN IF startswith_0x(cloid.s)
         THEN [id |-> uuid4(k + 1), drew |-> 1]
         ELSE [id |-> cloid, drew |-> 0]
    ELSE [id |-> uuid4(k + 1), drew |-> 1]

StepAsync(exc, order_data) == [exc |-> exc, order_data |-> order_data]

\* ExchangeAsyncAPI.order, lines 75-81, order_data with the price set
limit_tif_async(order_data, tif) ==
    CASE tif = PyStr("Alo") -> Put(order_data, "post_only", PyBool(TRUE))
      [] tif = PyStr("Ioc") -> Put(order_data, "tif", PyStr("IOC"))
      [] tif = PyStr("Tob") -> Put(order_data, "tif", PyStr("TOB"))
      [] OTHER -> order_data

\* ExchangeAsyncAPI.order, lines 73-83: [exc, order_data]
order_type_branch_async(order_data, order_type, limit_px) ==
    CASE order_type.t \notin {"str", "dict"} -> StepAsync("TypeError", order_data)
      [] contains(order_type, "limit") ->
           IF order_type.t = "str" \/ Get(order_type, "limit").t # "dict"
           THEN StepAsync("TypeError", order_data)
           ELSE StepAsync("", limit_tif_async(Put(order_data, "price", str(limit_px)),
                                              GetOr(Get(order_type, "limit"), "tif",
                                                    PyStr("Gtc"))))
      [] contains(order_type, "market") ->
           StepAsync("", Put(order_data, "type", PyStr("market")))
      [] OTHER -> StepAsync("", order_data)

\* ExchangeAsyncAPI.order, lines 88-101, data the response's data
order_result_async(cid, signs, io, data) ==
    IF data.t # "dict" THEN Outcome(Raised("AttributeError"), signs, <<io.sent>>, cid.drew)
    ELSE Outcome(Returned(OkReturn("order", PyDict(<<E("statuses", PyList(<<
                     Resting(GetOr(data, "order_id", PyNone), cid.id) >>))>>))),
                 signs, <<io.sent>>, cid.drew)

\* ExchangeAsyncAPI.order, lines 86-101, io the transport's answer
order_sent_async(cid, signs, io) ==
    IF io.rv.raised THEN Outcome(io.rv, signs, <<io.sent>>, cid.drew)
    ELSE IF io.rv.value.t # "dict"
    THEN Outcome(Raised("AttributeError"), signs, <<io.sent>>, cid.drew)
    ELSE order_result_async(cid, signs, io, GetOr(io.rv.value, "data", PyDict(<<>>)))

\* ExchangeAsyncAPI.order, lines 85-86, built the authenticated request
order_built_async(a, cid, built, upstream) ==
    IF built.raised THEN Outcome(Raised(built.exc), <<>>, <<>>, cid.drew)
    ELSE order_sent_async(cid, built.signs,
                          post_async(a, "/orders/create", built.request, FALSE, PyNone,
                                     upstream))

\* ExchangeAsyncAPI.order, line 85, br the outcome of the order_type branch
order_branched_async(a, cid, br, timestamp, upstream) ==
    IF br.exc # "" THEN Outcome(Raised(br.exc), <<>>, <<>>, cid.drew)
    ELSE order_built_async(a, cid,
             build_request_with_auth_async(a, br.order_data, "create_order", timestamp),
             upstream)

\* ExchangeAsyncAPI.order, lines 56-63
order_data_of_async(name, is_buy, sz, reduce_only, client_order_id) ==
    PyDict(<< E("symbol", name),
              E("side", PyStr(IF Truthy(is_buy) THEN "bid" ELSE "ask")),
              E("amount", str(sz)),
              E("reduce_only", reduce_only),
              E("client_order_id", client_order_id),
              E("tif", PyStr("GTC")) >>)

\* ExchangeAsyncAPI.order, lines 69-71, on a builder that passed the check
with_builder_async(order_data, builder) ==
    IF Has(builder, "f")
    THEN Put(Put(order_data, "builder_code", Get(builder, "b")), "builder_fee",
             Get(builder, "f"))
    ELSE Put(order_data, "builder_code", Get(builder, "b"))

\* ExchangeAsyncAPI.order, lines 56-83, cid the client order id
order_with_id_async(a, args, cid, timestamp, upstream) ==
    IF Truthy(Get(args, "builder"))
       /\ (Get(args, "builder").t # "dict" \/ ~Has(Get(args, "builder"), "b"))
    THEN Outcome(Raised("ValueError"), <<>>, <<>>, cid.drew)
    ELSE order_branched_async(a, cid,
             order_type_branch_async(
                 IF Truthy(Get(args, "builder"))
                 THEN with_builder_async(
                          order_data_of_async(Get(args, "name"), Get(args, "is_buy"),
                                              Get(args, "sz"), Get(args, "reduce_only"), cid.id),
                          Get(args, "builder"))
                 ELSE order_data_of_async(Get(args, "name"), Get(args, "is_buy"),
                                          Get(args, "sz"), Get(args, "reduce_only"), cid.id),
                 Get(args, "order_type"), Get(args, "limit_px")),
             timestamp, upstream)

\* ExchangeAsyncAPI.order
order_async(a, args, timestamp, upstream, k) ==
    order_with_id_async(a, args, generate_client_order_id_async(Get(args, "cloid"), k),
                        timestamp, upstream)

DefaultOrderTypeAsync == PyDict(<<E("limit", PyDict(<<E("tif", PyStr("Gtc"))>>))>>)

\* ExchangeAsyncAPI.batch_orders, lines 140-144, order_data with the price set
batch_limit_tif_async(order_data, tif) ==
    CASE tif = PyStr("Alo") -> Put(order_data, "post_only", PyBool(TRUE))
      [] tif = PyStr("Ioc") -> Put(order_data, "tif", PyStr("IOC"))
      [] OTHER -> order_data

\* ExchangeAsyncAPI.batch_orders, lines 138-146: [exc, order_data]
batch_order_type_branch_async(order_data, order_req, order_type) ==
    CASE order_type.t \notin {"str", "dict"} -> StepAsync("TypeError", order_data)
      [] contains(order_type, "limit") ->
           CASE ~Has(order_req, "limit_px") -> StepAsync("KeyError", order_data)
             [] order_type.t = "str" \/ Get(order_type, "limit").t # "dict" ->
                  StepAsync("TypeError", order_data)
             [] OTHER ->
                  StepAsync("", batch_limit_tif_async(
                                    Put(order_data, "price", str(Get(order_req, "limit_px"))),
                                    GetOr(Get(order_type, "limit"), "tif", PyStr("Gtc"))))
      [] contains(order_type, "market") ->
           StepAsync("", Put(order_data, "slippage_percent", PyStr("0.5")))
      [] OTHER -> StepAsync("", order_data)

TurnAsync(exc, action, signs, drew) ==
    [exc |-> exc, action |-> action, signs |-> signs, drew |-> drew]

\* ExchangeAsyncAPI.batch_orders, lines 148-153, built the authenticated request
batch_item_built_async(cid, built) ==
    IF built.raised THEN TurnAsync(built.exc, PyNone, <<>>, cid.drew)
    ELSE TurnAsync("", PyDict(<<E("type", PyStr("Create")), E("data", built.request)>>),
                   built.signs, cid.drew)

\* ExchangeAsyncAPI.batch_orders, line 148, br the outcome of the order_type branch
batch_item_branched_async(a, cid, br, timestamp) ==
    IF br.exc # "" THEN TurnAsync(br.exc, PyNone, <<>>, cid.drew)
    ELSE batch_item_built_async(cid,
             build_request_with_auth_async(a, br.order_data, "create_order", timestamp))

\* ExchangeAsyncAPI.batch_orders, lines 118-125
batch_order_data_of_async(order_req, client_order_id) ==
    PyDict(<< E("symbol", IF Truthy(GetOr(order_req, "name", PyNone))
                          THEN Get(order_req, "name")
                          ELSE GetOr(order_req, "coin", PyNone)),
              E("side", PyStr(IF Truthy(Get(order_req, "is_buy")) THEN "bid" ELSE "ask")),
              E("amount", str(Get(order_req, "sz"))),
              E("reduce_only", GetOr(order_req, "reduce_only", PyBool(FALSE))),
              E("client_order_id", client_order_id),
              E("tif", PyStr("GTC")) >>)

\* ExchangeAsyncAPI.batch_orders, lines 116-153, cid the client order id
batch_item_with_id_async(a, order_req, cid, timestamp) ==
    CASE ~Has(order_req, "is_buy") \/ ~Has(order_req, "sz") ->
           TurnAsync("KeyError", PyNone, <<>>, cid.drew)
      [] Has(order_req, "builder")
         /\ (Get(order_req, "builder").t # "dict" \/ ~Has(Get(order_req, "builder"), "b")) ->
           TurnAsync("ValueError", PyNone, <<>>, cid.drew)
      [] OTHER ->
           batch_item_branched_async(a, cid,
               batch_order_type_branch_async(
                   IF Has(order_req, "builder")
                   THEN with_builder_async(batch_order_data_of_async(order_req, cid.id),
                                           Get(order_req, "builder"))
                   ELSE batch_order_data_of_async(order_req, cid.id),
                   order_req, GetOr(order_req, "order_type", DefaultOrderTypeAsync)),
               timestamp)

\* ExchangeAsyncAPI.batch_orders, lines 116-153: one turn of the loop
batch_item_async(a, order_req, timestamp, k) ==
    batch_item_with_id_async(a, order_req,
        generate_client_order_id_async(GetOr(order_req, "cloid", PyNone), k), timestamp)

\* ExchangeAsyncAPI.batch_orders, lines 113-153: the loop over the orders, st
\* what the turns so far made
RECURSIVE batch_loop_async(_, _, _, _, _)
batch_loop_turn_async(a, orders, i, st, it, timestamp) ==
    IF it.exc # "" THEN Loop(it.exc, st.actions, st.signs, st.drew + it.drew)
    ELSE batch_loop_async(a, orders, i + 1,
                          Loop("", Append(st.actions, it.action), st.signs \o it.signs,
                               st.drew + it.drew),
                          timestamp)

batch_loop_async(a, orders, i, st, timestamp) ==
    IF i > Len(orders) THEN st
    ELSE batch_loop_turn_async(a, orders, i, st,
                               batch_item_async(a, orders[i], timestamp, st.drew), timestamp)

\* ExchangeAsyncAPI.batch_orders, lines 160-170: the status of one upstream result
batch_status_async(res) ==
    IF Truthy(GetOr(res, "success", PyNone))
    THEN Resting(GetOr(res, "order_id", PyNone), GetOr(res, "client_order_id", PyNone))
    ELSE PyDict(<<E("error", GetOr(res, "error", PyStr("Unknown error")))>>)

\* ExchangeAsyncAPI.batch_orders, lines 158-178, results the response's results
batch_statuses_async(loop, io, results, k) ==
    IF results.t \notin {"list", "dict"}
       \/ \E i \in 1..Len(results.kids) : results.kids[i].v.t # "dict"
    THEN Outcome(Raised("AttributeError"), loop.signs, <<io.sent>>, loop.drew - k)
    ELSE Outcome(Returned(OkReturn("batchOrder", PyDict(<<E("statuses",
                     PyList([i \in 1..Len(results.kids) |->
                                 batch_status_async(results.kids[i].v)]))>>))),
                 loop.signs, <<io.sent>>, loop.drew - k)

\* ExchangeAsyncAPI.batch_orders, line 159, data the response's data
batch_results_async(loop, io, data, k) ==
    IF data.t # "dict"
    THEN Outcome(Raised("AttributeError"), loop.signs, <<io.sent>>, loop.drew - k)
    ELSE batch_statuses_async(loop, io, GetOr(data, "results", PyList(<<>>)), k)

\* ExchangeAsyncAPI.batch_orders, lines 156-178, io the transport's answer
batch_sent_async(loop, io, k) ==
    IF io.rv.raised THEN Outcome(io.rv, loop.signs, <<io.sent>>, loop.drew - k)
    ELSE IF io.rv.value.t # "dict"
    THEN Outcome(Raised("AttributeError"), loop.signs, <<io.sent>>, loop.drew - k)
    ELSE batch_results_async(loop, io, GetOr(io.rv.value, "data", PyDict(<<>>)), k)

\* ExchangeAsyncAPI.batch_orders, lines 155-178, loop the outcome of the loop
batch_looped_async(a, loop, upstream, k) ==
    IF loop.exc # "" THEN Outcome(Raised(loop.exc), loop.signs, <<>>, loop.drew - k)
    ELSE batch_sent_async(loop,
             post_async(a, "/orders/batch", PyDict(<<E("actions", PyList(loop.actions))>>),
                        FALSE, PyNone, upstream),
             k)

\* ExchangeAsyncAPI.batch_orders
batch_orders_async(a, args, timestamp, upstream, k) ==
    batch_looped_async(a, batch_loop_async(a, Items(Get(args, "orders")), 1,
                                           Loop("", <<>>, <<>>, k), timestamp),
                       upstream, k)

\* ExchangeAsyncAPI.cancel, lines 222-229, io the transport's answer
cancel_sent_async(signs, io) ==
    IF io.rv.raised THEN Outcome(io.rv, signs, <<io.sent>>, 0)
    ELSE Outcome(Returned(OkReturn("cancel",
                     PyDict(<<E("statuses", PyList(<<PyStr("success")>>))>>))),
                 signs, <<io.sent>>, 0)

\* ExchangeAsyncAPI.cancel, lines 219-229, built the authenticated request
cancel_built_async(a, built, upstream) ==
    IF built.raised THEN Outcome(Raised(built.exc), <<>>, <<>>, 0)
    ELSE cancel_sent_async(built.signs,
                           post_async(a, "/orders/cancel", built.request, FALSE, PyNone,
                                      upstream))

\* ExchangeAsyncAPI.cancel, lines 210-217: the cancel data, None where it raises
cancel_data_async(args) ==
    CASE Truthy(Get(args, "oid")) ->
           PyDict(<<E("symbol", Get(args, "name")), E("order_id", Get(args, "oid"))>>)
      [] Truthy(Get(args, "cloid")) ->
           PyDict(<< E("symbol", Get(args, "name")),
                     E("client_order_id", Get(args, "cloid")) >>)
      [] OTHER -> PyNone

\* ExchangeAsyncAPI.cancel
cancel_async(a, args, timestamp, upstream, k) ==
    IF cancel_data_async(args) = PyNone THEN Outcome(Raised("ValueError"), <<>>, <<>>, 0)
    ELSE cancel_built_async(a,
             build_request_with_auth_async(a, cancel_data_async(args), "cancel_order",
                                           timestamp),
             upstream)

\* a coroutine asyncio.gather runs: done with its outcome, or waiting for the
\* upstream to answer the request it sent; at is its place in the order the
\* answers came in, 0 for a coroutine that never waited
Task(state, rv, req, signs, at) ==
    [state |-> state, rv |-> rv, request |-> req, signs |-> signs, at |-> at]

\* ExchangeAsyncAPI.cancel, lines 219-220, as a coroutine: up to its await of post
cancel_started_async(built) ==
    IF built.raised THEN Task("done", Raised(built.exc), PyNone, <<>>, 0)
    ELSE Task("pending", Returned(PyNone), built.request, built.signs, 0)

\* ExchangeAsyncAPI.cancel, lines 210-220, as a coroutine: up to its await of post
cancel_task_async(a, args, timestamp) ==
    IF cancel_data_async(args) = PyNone
    THEN Task("done", Raised("ValueError"), PyNone, <<>>, 0)
    ELSE cancel_started_async(
             build_request_with_auth_async(a, cancel_data_async(args), "cancel_order",
                                           timestamp))

\* ExchangeAsyncAPI.batch_cancel, lines 249-260: the coroutine of one request,
\* KeyError where cancel_req["name"] raises
batch_cancel_task_async(a, cancel_req, timestamp) ==
    CASE Has(cancel_req, "oid") ->
           IF ~Has(cancel_req, "name") THEN [exc |-> "KeyError"]
           ELSE [exc |-> "",
                 task |-> cancel_task_async(a,
                     CancelCall(Get(cancel_req, "name"), Get(cancel_req, "oid"), PyNone),
                     timestamp)]
      [] Has(cancel_req, "cloid") ->
           IF ~Has(cancel_req, "name") THEN [exc |-> "KeyError"]
           ELSE [exc |-> "",
                 task |-> cancel_task_async(a,
                     CancelCall(Get(cancel_req, "name"), PyNone, Get(cancel_req, "cloid")),
                     timestamp)]
      [] OTHER ->
           [exc |-> "",
            task |-> Task("done", Returned(PyDict(<<E("status", PyStr("error"))>>)),
                          PyNone, <<>>, 0)]

\* ExchangeAsyncAPI.batch_cancel, lines 246-263: the coroutines of the requests
batch_cancel_tasks_async(a, cancels, timestamp) ==
    [i \in 1..Len(cancels) |-> batch_cancel_task_async(a, cancels[i], timestamp)]

\* ExchangeAsyncAPI.cancel, lines 220-229, as a coroutine: from the answer on
cancel_answered_async(a, task, upstream, at) ==
    Task("done",
         cancel_sent_async(task.signs,
             post_async(a, "/orders/cancel", task.request, FALSE, PyNone, upstream)).rv,
         task.request, task.signs, at)

\* ExchangeAsyncAPI.batch_cancel, lines 266-274: the status of one result
batch_cancel_status_async(rv) ==
    IF rv.raised THEN PyStr("error")
    ELSE IF rv.value.t = "dict" /\ GetOr(rv.value, "status", PyNone) = PyStr("ok")
    THEN PyStr("success")
    ELSE PyStr("error")

\* ExchangeAsyncAPI.batch_cancel, lines 263-282: gather hands the results back
\* in the order of the coroutines it was given
batch_cancel_gathered_async(ts) ==
    BatchCancelReturn([i \in 1..Len(ts) |-> batch_cancel_status_async(ts[i].rv)])

------------------------------------------------------------------------------
(* Info API: pacifica/api/info.py, pacifica/api/info_async.py,             *)
(* pacifica/async_client.py, and the transformers they hand the responses  *)
(* to.  A read is one call; upstreams[i] is the upstream's answer to the   *)
(* i-th fetch the read may make.                                           *)

\* BaseAPIClient.get
get(a, endpoint, params, upstream) ==
    request(a, "GET", endpoint, params, PyNone, FALSE, PyNone, upstream)

\* BaseAsyncAPIClient.get
get_async(a, endpoint, params, upstream) ==
    request_async(a, "GET", endpoint, params, PyNone, FALSE, PyNone, upstream)

\* float(s) on the decimal strings of the model, all of them whole numbers
float(s) ==
    CASE s = PyStr("1.0") -> 1
      [] s = PyStr("2.0") -> 2
      [] s = PyStr("100.0") -> 100
      [] OTHER -> 0

\* str(x) of a float that holds the whole number n
float_str(n) ==
    CASE n = 0 -> "0.0"
      [] n = 100 -> "100.0"
      [] n = 200 -> "200.0"
      [] n = 300 -> "300.0"
      [] n = 400 -> "400.0"
      [] OTHER -> "float"

\* abs(float(p["amount"]) * float(p["entry_price"]))
position_value(pos) ==
    IF float(Get(pos, "amount")) * float(Get(pos, "entry_price")) < 0
    THEN 0 - float(Get(pos, "amount")) * float(Get(pos, "entry_price"))
    ELSE float(Get(pos, "amount")) * float(Get(pos, "entry_price"))

RECURSIVE sum_position_values(_, _)
sum_position_values(positions, i) ==
    IF i > Len(positions) THEN 0
    ELSE position_value(positions[i]) + sum_position_values(positions, i + 1)

\* AccountTransformer.transform_user_state, lines 45-49 and 61-66
leverage_obj(pos) ==
    PyDict(<< E("type", PyStr(IF ~Truthy(GetOr(pos, "isolated", PyBool(FALSE)))
                              THEN "cross" ELSE "isolated")),
              E("value", GetOr(pos, "leverage", PyInt(20))),
              E("rawUsd", IF Truthy(GetOr(pos, "isolated", PyBool(FALSE)))
                          THEN GetOr(pos, "margin", PyStr("0")) ELSE PyNone) >>)

\* AccountTransformer.transform_user_state, lines 30-68: one position
position_obj(pos) ==
    PyDict(<<E("position", PyDict(<<
        E("coin", Get(pos, "symbol")),
        E("entryPx", Get(pos, "entry_price")),
        E("leverage", leverage_obj(pos)),
        E("liquidationPx", GetOr(pos, "liquidation_price", PyNone)),
        E("marginUsed", GetOr(pos, "margin", PyStr("0"))),
        E("maxTradeSz", GetOr(pos, "max_trade_size", PyStr("0"))),
        E("positionValue", PyStr(float_str(position_value(pos)))),
        E("returnOnEquity", GetOr(pos, "roe", PyStr("0"))),
        E("szi", IF Get(pos, "side") = PyStr("bid") THEN Get(pos, "amount")
                 ELSE PyStr("-" \o Get(pos, "amount").s)),
        E("unrealizedPnl", GetOr(pos, "unrealized_pnl", PyStr("0"))) >>))>>)

\* AccountTransformer.transform_user_state, lines 74-92: a margin summary
margin_summary(account, positions) ==
    << E("accountValue", GetOr(account, "account_equity", PyStr("0"))),
       E("totalMarginUsed", GetOr(account, "total_margin_used", PyStr("0"))),
       E("totalNtlPos", IF positions # <<>>
                        THEN PyStr(float_str(sum_position_values(positions, 1)))
                        ELSE PyStr("0")),
       E("totalRawUsd", GetOr(account, "balance", PyStr("0"))) >>

\* AccountTransformer.transform_user_state, lines 70-94
user_state_of(account, positions) ==
    PyDict(<<
        E("assetPositions", PyList([i \in 1..Len(positions) |-> position_obj(positions[i])])),
        E("crossMaintenanceMarginUsed", GetOr(account, "cross_mmr", PyStr("0"))),
        E("crossMarginSummary", PyDict(margin_summary(account, positions))),
        E("marginSummary", PyDict(Append(margin_summary(account, positions),
            E("withdrawable", GetOr(account, "available_to_withdraw", PyStr("0")))))),
        E("withdrawable", GetOr(account, "available_to_withdraw", PyStr("0"))) >>)

\* AccountTransformer.transform_user_state
transform_user_state(account_response, positions_response) ==
    user_state_of(GetOr(account_response, "data", PyDict(<<>>)),
                  Items(GetOr(positions_response, "data", PyList(<<>>))))

\* the account a brand-new address is given: info.py lines 97-103
ZeroAccount ==
    PyDict(<<E("data", PyDict(<<
        E("balance", PyStr("0")), E("account_equity", PyStr("0")),
        E("total_margin_used", PyStr("0")), E("cross_mmr", PyStr("0")),
        E("available_to_withdraw", PyStr("0")) >>))>>)

\* market.get('max_leverage') or market.get('maxLeverage')
max_lev_of(market) ==
    IF Truthy(GetOr(market, "max_leverage", PyNone))
    THEN Get(market, "max_leverage")
    ELSE GetOr(market, "maxLeverage", PyNone)

\* InfoAPI.user_state, lines 132-138: the map of the markets from the i-th on
RECURSIVE max_leverage_map(_, _, _)
max_leverage_map(markets, i, map) ==
    IF i > Len(markets) THEN map
    ELSE max_leverage_map(markets, i + 1,
             IF Truthy(GetOr(markets[i], "symbol", PyNone)) /\ Truthy(max_lev_of(markets[i]))
             THEN Put(map, Get(markets[i], "symbol").s, max_lev_of(markets[i]))
             ELSE map)

\* InfoAPI.user_state, lines 150-155: the first entry of the list for symbol
\* that holds a leverage, from the i-th on
RECURSIVE listed_leverage(_, _, _)
listed_leverage(items, symbol, i) ==
    IF i > Len(items) THEN PyNone
    ELSE IF items[i].t = "dict" /\ GetOr(items[i], "symbol", PyNone) = symbol
            /\ Has(items[i], "leverage")
    THEN Get(items[i], "leverage")
    ELSE listed_leverage(items, symbol, i + 1)

\* InfoAPI.user_state, lines 144-155: the account's setting for symbol
settings_leverage(settings_data, symbol) ==
    CASE settings_data.t = "dict" /\ Has(settings_data, symbol.s) ->
           IF Get(settings_data, symbol.s).t = "dict"
              /\ Has(Get(settings_data, symbol.s), "leverage")
           THEN Get(Get(settings_data, symbol.s), "leverage")
           ELSE PyNone
      [] settings_data.t = "list" -> listed_leverage(Items(settings_data), symbol, 1)
      [] OTHER -> PyNone

\* InfoAPI.user_state, lines 144-159: the leverage found for symbol
leverage_of(settings_data, max_map, symbol) ==
    IF settings_leverage(settings_data, symbol) = PyNone
    THEN GetOr(max_map, symbol.s, PyNone)
    ELSE settings_leverage(settings_data, symbol)

\* InfoAPI.user_state, lines 141-162: one position
add_leverage(position, settings_data, max_map) ==
    IF Truthy(GetOr(position, "symbol", PyNone))
       /\ Truthy(leverage_of(settings_data, max_map, Get(position, "symbol")))
    THEN Put(position, "leverage", leverage_of(settings_data, max_map, Get(position, "symbol")))
    ELSE position

\* InfoAPI.user_state, lines 131-162: the positions response with the
\* leverage written into its positions
with_leverage(positions_response, settings_data, markets_data) ==
    Put(positions_response, "data",
        PyList([i \in 1..Len(Items(Get(positions_response, "data"))) |->
                    add_leverage(Items(Get(positions_response, "data"))[i], settings_data,
                                 IF markets_data.t = "list"
                                 THEN max_leverage_map(Items(markets_data), 1, PyDict(<<>>))
                                 ELSE PyDict(<<>>))]))


\* params={"account": address}
AccountParams(address) == PyDict(<<E("account", address)>>)

\* InfoAPI.user_state, lines 87-88
user_state_address(a, address) ==
    IF ~Truthy(address) /\ a.present THEN get_account(a) ELSE address

\* what a fetch inside try/except leaves in `name_data`: response.get('data', default)
data_or(io, default) ==
    IF io.rv.raised THEN default ELSE GetOr(io.rv.value, "data", default)

\* InfoAPI.user_state, lines 114-167, for a non-empty list of positions
user_state_leveraged(account_response, positions_response, settings_io, info_io, sends) ==
    Outcome(Returned(transform_user_state(account_response,
                with_leverage(positions_response, data_or(settings_io, PyDict(<<>>)),
                              data_or(info_io, PyList(<<>>))))),
            <<>>, sends \o <<settings_io.sent, info_io.sent>>, 0)

\* InfoAPI.user_state, lines 106-167, pos_io the fetch of the positions
user_state_positions(a, address, account_response, pos_io, upstreams, sends) ==
    CASE pos_io.rv.raised -> Outcome(pos_io.rv, <<>>, sends \o <<pos_io.sent>>, 0)
      [] Truthy(GetOr(pos_io.rv.value, "data", PyList(<<>>))) ->
           user_state_leveraged(account_response, pos_io.rv.value,
               get(a, "/api/v1/account/settings", AccountParams(address), upstreams[3]),
               get(a, "/api/v1/info", PyNone, upstreams[4]),
               sends \o <<pos_io.sent>>)
      [] OTHER ->
           Outcome(Returned(transform_user_state(account_response, pos_io.rv.value)),
                   <<>>, sends \o <<pos_io.sent>>, 0)

\* InfoAPI.user_state, lines 91-167, acc_io the fetch of the account
user_state_account(a, address, acc_io, upstreams) ==
    IF acc_io.rv.raised /\ acc_io.rv.exc # "PacificaAccountNotFoundError"
    THEN Outcome(acc_io.rv, <<>>, <<acc_io.sent>>, 0)
    ELSE user_state_positions(a, address,
             IF acc_io.rv.raised THEN ZeroAccount ELSE acc_io.rv.value,
             get(a, "/api/v1/positions", AccountParams(address), upstreams[2]),
             upstreams, <<acc_io.sent>>)

\* InfoAPI.user_state
user_state(a, args, timestamp, upstreams, k) ==
    user_state_account(a, user_state_address(a, Get(args, "address")),
        get(a, "/api/v1/account",
            AccountParams(user_state_address(a, Get(args, "address"))), upstreams[1]),
        upstreams)

\* the response a fetch of execute_parallel leaves: results[i] if it is not
\* an exception, else the default
result_or(io, default) == IF io.rv.raised THEN default ELSE io.rv.value

EmptyList == PyDict(<<E("data", PyList(<<>>))>>)

EmptyDict == PyDict(<<E("data", PyDict(<<>>))>>)

\* InfoAsyncAPI.user_state, lines 50-106, ios the four fetches
user_state_gathered_async(account_response, positions_response, settings_response, info_response, sends) ==
    Outcome(Returned(transform_user_state(account_response,
                IF Truthy(GetOr(positions_response, "data", PyList(<<>>)))
                THEN with_leverage(positions_response,
                                   GetOr(settings_response, "data", PyDict(<<>>)),
                                   GetOr(info_response, "data", PyList(<<>>)))
                ELSE positions_response)),
            <<>>, sends, 0)

\* InfoAsyncAPI.user_state, lines 35-62
user_state_fetched_async(acc_io, pos_io, settings_io, info_io) ==
    user_state_gathered_async(result_or(acc_io, ZeroAccount), result_or(pos_io, EmptyList),
                              result_or(settings_io, EmptyDict), result_or(info_io, EmptyList),
                              <<acc_io.sent, pos_io.sent, settings_io.sent, info_io.sent>>)

\* InfoAsyncAPI.user_state, address resolved
user_state_for_async(a, address, upstreams) ==
    user_state_fetched_async(
        get_async(a, "/account", AccountParams(address), upstreams[1]),
        get_async(a, "/positions", AccountParams(address), upstreams[2]),
        get_async(a, "/account/settings", AccountParams(address), upstreams[3]),
        get_async(a, "/info", PyNone, upstreams[4]))

\* InfoAsyncAPI.user_state
user_state_async(a, args, timestamp, upstreams, k) ==
    user_state_for_async(a, user_state_address(a, Get(args, "address")), upstreams)

\* "account" in str(url), url the base URL and the endpoint
account_in_endpoint(endpoint) ==
    endpoint \in {"/api/v1/account", "/api/v1/account/settings"}

\* AsyncPacificaClient._request, lines 76-79: the query parameters
client_params(a, params) ==
    IF a.present /\ ~Has(IF params = PyNone THEN PyDict(<<>>) ELSE params, "account")
    THEN Put(IF params = PyNone THEN PyDict(<<>>) ELSE params, "account",
             get_public_key(a))
    ELSE params

\* AsyncPacificaClient._request: [rv, sent]
client_request(a, method, endpoint, params, upstream) ==
    [rv |-> CASE upstream.network -> Raised("ClientError")
              [] upstream.status = 404 /\ account_in_endpoint(endpoint) ->
                   Raised("PacificaAccountNotFoundError")
              [] upstream.status >= 400 -> Raised("PacificaAPIError")
              [] OTHER -> Returned(upstream.body),
     sent |-> SentRequest(method, endpoint, client_params(a, params), PyNone, PyDict(<<>>))]

\* AsyncPacificaClient.user_state, lines 110-116
client_address(a, address) ==
    IF ~Truthy(address) /\ a.present THEN get_public_key(a) ELSE address

\* AsyncPacificaClient.user_state, lines 152-209, for a non-empty list of positions
client_user_state_leveraged(account_response, positions_response, settings_io, info_io, sends) ==
    Outcome(Returned(transform_user_state(account_response,
                with_leverage(positions_response,
                              GetOr(result_or(settings_io, EmptyDict), "data", PyDict(<<>>)),
                              GetOr(result_or(info_io, EmptyList), "data", PyList(<<>>))))),
            <<>>, sends \o <<settings_io.sent, info_io.sent>>, 0)

\* AsyncPacificaClient.user_state, lines 124-209, the first two fetches done
client_user_state_fetched(a, address, account_response, positions_response, upstreams, sends) ==
    IF Truthy(GetOr(positions_response, "data", PyList(<<>>)))
    THEN client_user_state_leveraged(account_response, positions_response,
             client_request(a, "GET", "/api/v1/account/settings", AccountParams(address),
                            upstreams[3]),
             client_request(a, "GET", "/api/v1/info", PyNone, upstreams[4]),
             sends)
    ELSE Outcome(Returned(transform_user_state(account_response, positions_response)),
                 <<>>, sends, 0)

\* AsyncPacificaClient.user_state, lines 119-147
client_user_state_for(a, address, acc_io, pos_io, upstreams) ==
    client_user_state_fetched(a, address, result_or(acc_io, ZeroAccount),
                              result_or(pos_io, EmptyList), upstreams,
                              <<acc_io.sent, pos_io.sent>>)

\* AsyncPacificaClient.user_state
client_user_state(a, args, timestamp, upstreams, k) ==
    client_user_state_for(a, client_address(a, Get(args, "address")),
        client_request(a, "GET", "/api/v1/account",
                       AccountParams(client_address(a, Get(args, "address"))), upstreams[1]),
        client_request(a, "GET", "/api/v1/positions",
                       AccountParams(client_address(a, Get(args, "address"))), upstreams[2]),
        upstreams)


\* response.get("data", []) as a sequence
DataItems(response) == Items(GetOr(response, "data", PyList(<<>>)))

\* AccountTransformer.transform_open_orders, lines 118-128: one order
open_order_of(o) ==
    PyDict(<<
        E("coin", Get(o, "symbol")),
        E("limitPx", GetOr(o, "initial_price", GetOr(o, "price", PyStr("0")))),
        E("oid", Get(o, "order_id")),
        E("origSz", GetOr(o, "amount", GetOr(o, "initial_amount", PyStr("0")))),
        E("side", PyStr(IF Get(o, "side") = PyStr("bid") THEN "B" ELSE "A")),
        E("sz", GetOr(o, "remaining_amount", GetOr(o, "amount", PyStr("0")))),
        E("timestamp", Get(o, "created_at")),
        E("cloid", GetOr(o, "client_order_id", PyNone)) >>)

\* AccountTransformer.transform_open_orders
transform_open_orders(orders_response) ==
    PyList([i \in 1..Len(DataItems(orders_response)) |->
                open_order_of(DataItems(orders_response)[i])])

\* "open" in s, "close" in s on the trade tags of the model
has_open(s) == s \in {"long_open", "short_open", "open_long", "open_short"}

has_close(s) == s \in {"long_close", "short_close", "close_long", "close_short"}

\* AccountTransformer.transform_user_fills, lines 166-196: one trade
fill_of(trade) ==
    PyDict(<<
        E("coin", Get(trade, "symbol")),
        E("px", Get(trade, "price")),
        E("sz", Get(trade, "amount")),
        E("side", PyStr(IF Get(trade, "side").s \in {"bid", "long_open", "short_close"}
                        THEN "B" ELSE "A")),
        E("time", Get(trade, "created_at")),
        E("startPosition", GetOr(trade, "start_position", PyStr("0"))),
        E("dir", PyStr(CASE has_open(GetOr(trade, "side", PyStr("")).s) -> "Open"
                         [] has_close(GetOr(trade, "side", PyStr("")).s) -> "Close"
                         [] OTHER -> "Trade")),
        E("closedPnl", GetOr(trade, "pnl", PyStr("0"))),
        E("hash", GetOr(trade, "tx_hash", PyStr(""))),
        E("oid", GetOr(trade, "order_id", PyNone)),
        E("crossed", PyBool(GetOr(trade, "event_type", PyNone) = PyStr("fulfill_taker"))),
        E("fee", GetOr(trade, "fee", PyStr("0"))),
        E("tid", GetOr(trade, "history_id", PyNone)),
        E("liquidation", GetOr(trade, "is_liquidation", PyBool(FALSE))),
        E("cloid", GetOr(trade, "client_order_id", PyNone)) >>)

\* AccountTransformer.transform_user_fills, lines 161-164: the trades kept
trades_kept(trades, oid) ==
    SelectSeq(trades, LAMBDA trade : ~(Truthy(oid) /\ GetOr(trade, "order_id", PyNone) # oid))

\* AccountTransformer.transform_user_fills
transform_user_fills(trades_response, oid) ==
    PyList([i \in 1..Len(trades_kept(DataItems(trades_response), oid)) |->
                fill_of(trades_kept(DataItems(trades_response), oid)[i])])

\* one funding payment of the history: the straight projection of its fields
funding_of(funding) ==
    PyDict(<<
        E("coin", GetOr(funding, "symbol", PyStr(""))),
        E("fundingRate", GetOr(funding, "funding_rate", PyStr("0"))),
        E("szi", GetOr(funding, "position_size", PyStr("0"))),
        E("type", PyStr("funding")),
        E("time", GetOr(funding, "timestamp", PyInt(0))),
        E("hash", GetOr(funding, "tx_hash", PyStr(""))),
        E("usdc", GetOr(funding, "funding_amount", PyStr("0"))) >>)

\* AccountTransformer.transform_funding_history: funding history -> list
transform_funding_history(funding_response) ==
    PyList([i \in 1..Len(DataItems(funding_response)) |->
                funding_of(DataItems(funding_response)[i])])

\* MarketTransformer.transform_meta, lines 18-33: one market
universe_entry(market) ==
    PyDict(<<
        E("name", Get(market, "symbol")),
        E("szDecimals", GetOr(market, "size_decimals", PyInt(8))),
        E("maxLeverage", GetOr(market, "max_leverage", PyInt(100))),
        E("onlyIsolated", GetOr(market, "isolated_only", PyBool(FALSE))),
        E("lotSize", GetOr(market, "lot_size", PyStr("0.00001"))),
        E("tickSize", GetOr(market, "tick_size", PyStr("0.01"))),
        E("minTick", GetOr(market, "min_tick", PyStr("0"))),
        E("maxTick", GetOr(market, "max_tick", PyStr("1000000"))),
        E("minOrderSize", GetOr(market, "min_order_size", PyStr("10"))),
        E("maxOrderSize", GetOr(market, "max_order_size", PyStr("5000000"))),
        E("fundingRate", GetOr(market, "funding_rate", PyStr("0"))),
        E("nextFundingRate", GetOr(market, "next_funding_rate", PyStr("0"))),
        E("createdAt", GetOr(market, "created_at", PyNone)) >>)

\* MarketTransformer.transform_meta
transform_meta(info_response) ==
    PyDict(<<E("universe", PyList([i \in 1..Len(DataItems(info_response)) |->
                                       universe_entry(DataItems(info_response)[i])]))>>)

\* MarketTransformer.transform_all_mids, the prices from the i-th on
RECURSIVE all_mids_from(_, _, _)
all_mids_from(prices, i, mids) ==
    IF i > Len(prices) THEN mids
    ELSE all_mids_from(prices, i + 1,
             Put(mids, Get(prices[i], "symbol").s, GetOr(prices[i], "mid", PyStr("0"))))

\* MarketTransformer.transform_all_mids
transform_all_mids(prices_response) ==
    all_mids_from(DataItems(prices_response), 1, PyDict(<<>>))

\* MarketTransformer.transform_funding_rates, lines 101-107: one rate
funding_rate_of(funding) ==
    PyDict(<<
        E("coin", GetOr(funding, "symbol", PyStr(""))),
        E("fundingRate", GetOr(funding, "funding_rate", PyStr("0"))),
        E("premium", GetOr(funding, "premium", PyStr("0"))),
        E("time", GetOr(funding, "next_funding_time", PyInt(0))) >>)

\* MarketTransformer.transform_funding_rates
transform_funding_rates(funding_response) ==
    PyList([i \in 1..Len(DataItems(funding_response)) |->
                funding_rate_of(DataItems(funding_response)[i])])

\* MarketTransformer.transform_open_interest, the items from the i-th on
RECURSIVE open_interest_from(_, _, _)
open_interest_from(oi_data, i, res) ==
    IF i > Len(oi_data) THEN res
    ELSE open_interest_from(oi_data, i + 1,
             Put(res, Get(oi_data[i], "symbol").s,
                 PyDict(<< E("oi", GetOr(oi_data[i], "open_interest", PyStr("0"))),
                           E("oiValue", GetOr(oi_data[i], "open_interest_value",
                                              PyStr("0"))) >>)))

\* MarketTransformer.transform_open_interest
transform_open_interest(oi_response) ==
    open_interest_from(DataItems(oi_response), 1, PyDict(<<>>))


\* InfoAsyncAPI.open_orders
open_orders_async(a, address, upstream) ==
    [rv |-> IF get_async(a, "/orders", AccountParams(user_state_address(a, address)),
                         upstream).rv.raised
            THEN get_async(a, "/orders", AccountParams(user_state_address(a, address)),
                           upstream).rv
            ELSE Returned(transform_open_orders(
                     get_async(a, "/orders", AccountParams(user_state_address(a, address)),
                               upstream).rv.value)),
     sent |-> get_async(a, "/orders", AccountParams(user_state_address(a, address)),
                        upstream).sent]

\* InfoAsyncAPI.user_fills
user_fills_async(a, address, oid, upstream) ==
    [rv |-> IF get_async(a, "/trades/history",
                         AccountParams(user_state_address(a, address)), upstream).rv.raised
            THEN get_async(a, "/trades/history",
                           AccountParams(user_state_address(a, address)), upstream).rv
            ELSE Returned(transform_user_fills(
                     get_async(a, "/trades/history",
                               AccountParams(user_state_address(a, address)),
                               upstream).rv.value, oid)),
     sent |-> get_async(a, "/trades/history",
                        AccountParams(user_state_address(a, address)), upstream).sent]

\* user_funding, lines 227-229: the query of the funding history
funding_params(address, start_time) ==
    IF start_time > 0
    THEN Put(AccountParams(address), "start_time", PyInt(start_time))
    ELSE AccountParams(address)

\* InfoAPI.user_funding, the fetch made: [rv, sent]
user_funding_fetched(io) ==
    [rv |-> Returned(transform_funding_history(result_or(io, EmptyList))),
     sent |-> io.sent]

\* InfoAPI.user_funding: [rv, sent]
user_funding_io(a, address, start_time, upstream) ==
    user_funding_fetched(
        get(a, "/api/v1/funding/history",
            funding_params(user_state_address(a, address), start_time), upstream))

\* InfoAsyncAPI.user_funding: [rv, sent]
user_funding_io_async(a, address, start_time, upstream) ==
    user_funding_fetched(
        get_async(a, "/funding/history",
                  funding_params(user_state_address(a, address), start_time), upstream))

\* funding_rates without its try/except: a failed fetch propagates
funding_rates_unguarded(io) ==
    [rv |-> IF io.rv.raised THEN io.rv
            ELSE Returned(transform_funding_rates(io.rv.value)),
     sent |-> io.sent]

\* InfoAPI.funding_rates and InfoAsyncAPI.funding_rates, the fetch made
funding_rates_fetched(io) ==
    [rv |-> Returned(transform_funding_rates(result_or(io, EmptyList))), sent |-> io.sent]

\* InfoAPI.funding_rates: [rv, sent]
funding_rates_io(a, upstream) ==
    funding_rates_fetched(get(a, "/api/v1/funding/rates", PyNone, upstream))

\* InfoAsyncAPI.funding_rates: [rv, sent]
funding_rates_io_async(a, upstream) ==
    funding_rates_fetched(get_async(a, "/funding/rates", PyNone, upstream))

\* InfoAPI.open_interest and InfoAsyncAPI.open_interest, the fetch made
open_interest_fetched(io) ==
    [rv |-> Returned(transform_open_interest(result_or(io, EmptyList))), sent |-> io.sent]

\* InfoAPI.open_interest: [rv, sent]
open_interest_io(a, upstream) ==
    open_interest_fetched(get(a, "/api/v1/stats/open_interest", PyNone, upstream))

\* InfoAsyncAPI.open_interest: [rv, sent]
open_interest_io_async(a, upstream) ==
    open_interest_fetched(get_async(a, "/stats/open_interest", PyNone, upstream))

\* the call made one request
OneFetch(io) == Outcome(io.rv, <<>>, <<io.sent>>, 0)

user_funding(a, args, timestamp, upstreams, k) ==
    OneFetch(user_funding_io(a, Get(args, "address"), Get(args, "start_time").n,
                             upstreams[1]))

user_funding_async(a, args, timestamp, upstreams, k) ==
    OneFetch(user_funding_io_async(a, Get(args, "address"), Get(args, "start_time").n,
                                   upstreams[1]))

funding_rates(a, args, timestamp, upstreams, k) ==
    OneFetch(funding_rates_io(a, upstreams[1]))

funding_rates_async(a, args, timestamp, upstreams, k) ==
    OneFetch(funding_rates_io_async(a, upstreams[1]))

open_interest(a, args, timestamp, upstreams, k) ==
    OneFetch(open_interest_io(a, upstreams[1]))

open_interest_async(a, args, timestamp, upstreams, k) ==
    OneFetch(open_interest_io_async(a, upstreams[1]))

\* InfoAsyncAPI.meta: [rv, sent]
meta_async(a, upstream) ==
    [rv |-> IF get_async(a, "/info", PyNone, upstream).rv.raised
            THEN get_async(a, "/info", PyNone, upstream).rv
            ELSE Returned(transform_meta(get_async(a, "/info", PyNone, upstream).rv.value)),
     sent |-> get_async(a, "/info", PyNone, upstream).sent]

\* InfoAsyncAPI.all_mids: [rv, sent]
all_mids_async(a, upstream) ==
    [rv |-> IF get_async(a, "/info/prices", PyNone, upstream).rv.raised
            THEN get_async(a, "/info/prices", PyNone, upstream).rv
            ELSE Returned(transform_all_mids(
                     get_async(a, "/info/prices", PyNone, upstream).rv.value)),
     sent |-> get_async(a, "/info/prices", PyNone, upstream).sent]

\* results[i] if not isinstance(results[i], Exception) else default
gathered(rv, default) == IF rv.raised THEN default ELSE rv.value

\* InfoAsyncAPI.get_account_summary, lines 249-256: the four tasks gathered
account_summary_of(state, orders, fills, funding) ==
    Outcome(Returned(PyDict(<<
                E("user_state", gathered(state.rv, PyNone)),
                E("open_orders", gathered(orders.rv, PyList(<<>>))),
                E("user_fills", gathered(fills.rv, PyList(<<>>))),
                E("user_funding", gathered(funding.rv, PyList(<<>>))) >>)),
            <<>>, state.sends \o <<orders.sent, fills.sent, funding.sent>>, 0)

\* InfoAsyncAPI.get_account_summary, address resolved
account_summary_for(a, address, upstreams) ==
    account_summary_of(user_state_for_async(a, user_state_address(a, address), upstreams),
                       open_orders_async(a, address, upstreams[5]),
                       user_fills_async(a, address, PyNone, upstreams[6]),
                       user_funding_io_async(a, address, 0, upstreams[7]))

\* InfoAsyncAPI.get_account_summary
get_account_summary(a, args, timestamp, upstreams, k) ==
    account_summary_for(a, user_state_address(a, Get(args, "address")), upstreams)

\* InfoAsyncAPI.get_market_summary, lines 332-339: the four tasks gathered
market_summary_of(meta_io, mids_io, rates_io, oi_io) ==
    Outcome(Returned(PyDict(<<
                E("meta", gathered(meta_io.rv, PyDict(<<>>))),
                E("all_mids", gathered(mids_io.rv, PyDict(<<>>))),
                E("funding_rates", gathered(rates_io.rv, PyList(<<>>))),
                E("open_interest", gathered(oi_io.rv, PyDict(<<>>))) >>)),
            <<>>, <<meta_io.sent, mids_io.sent, rates_io.sent, oi_io.sent>>, 0)

\* InfoAsyncAPI.get_market_summary
get_market_summary(a, args, timestamp, upstreams, k) ==
    market_summary_of(meta_async(a, upstreams[1]), all_mids_async(a, upstreams[2]),
                      funding_rates_io_async(a, upstreams[3]),
                      open_interest_io_async(a, upstreams[4]))

\* the kinds of balance event that are ledger updates
LedgerKinds == {"deposit", "deposit_release", "withdraw", "subaccount_transfer"}

\* InfoAsyncAPI.user_non_funding_ledger_updates, lines 206-220: the loop over
\* data from the i-th event on, filtered_events so far
RECURSIVE filtered_from(_, _, _, _, _)
filtered_from(data, i, startTime, endTime, filtered_events) ==
    IF i > Len(data) THEN filtered_events
    ELSE IF GetOr(data[i], "created_at", PyInt(0)).n < startTime.n THEN filtered_events
    ELSE IF Truthy(endTime) /\ GetOr(data[i], "created_at", PyInt(0)).n > endTime.n
    THEN filtered_from(data, i + 1, startTime, endTime, filtered_events)
    ELSE IF GetOr(data[i], "event_type", PyStr("")).s \in LedgerKinds
    THEN filtered_from(data, i + 1, startTime, endTime, Append(filtered_events, data[i]))
    ELSE filtered_from(data, i + 1, startTime, endTime, filtered_events)

\* a transformer that reports every kind of event under its own name
delta_type_verbatim(kind) == kind

\* the type of delta a balance event of a kind is
delta_type(kind) ==
    CASE kind = "subaccount_transfer" -> "transfer"
      [] kind = "deposit_release" -> "deposit"
      [] OTHER -> kind

\* one ledger update
ledger_update_of(event) ==
    PyDict(<<
        E("time", GetOr(event, "created_at", PyInt(0))),
        E("hash", GetOr(event, "tx_hash", PyStr(""))),
        E("delta", PyDict(<<
            E("type", PyStr(delta_type(GetOr(event, "event_type", PyStr("")).s))),
            E("coin", PyStr("USDC")),
            E("usdc", GetOr(event, "amount", PyStr("0"))) >>)) >>)

\* the events of a ledger kind
ledger_events(events) ==
    SelectSeq(events, LAMBDA event : GetOr(event, "event_type", PyStr("")).s \in LedgerKinds)

\* AccountTransformer.transform_non_funding_ledger_updates: balance/ledger
\* events -> non-funding ledger updates, the order of the events kept
transform_non_funding_ledger_updates(events) ==
    PyList([i \in 1..Len(ledger_events(events)) |-> ledger_update_of(ledger_events(events)[i])])

\* InfoAsyncAPI.user_non_funding_ledger_updates, lines 200-227, the fetch made
ledger_updates_fetched(io, startTime, endTime) ==
    Outcome(Returned(transform_non_funding_ledger_updates(
                IF io.rv.raised THEN <<>>
                ELSE filtered_from(DataItems(io.rv.value), 1, startTime, endTime, <<>>))),
            <<>>, <<io.sent>>, 0)

\* InfoAsyncAPI.user_non_funding_ledger_updates, lines 190: the address
ledger_address(a, user) ==
    IF Truthy(user) THEN user ELSE IF a.present THEN get_account(a) ELSE PyNone

\* InfoAsyncAPI.user_non_funding_ledger_updates
user_non_funding_ledger_updates(a, args, timestamp, upstreams, k) ==
    IF ~Truthy(ledger_address(a, Get(args, "user")))
    THEN Outcome(Raised("ValueError"), <<>>, <<>>, 0)
    ELSE ledger_updates_fetched(
             get_async(a, "/api/v1/account/balance/history",
                       PyDict(<< E("account", ledger_address(a, Get(args, "user"))),
                                 E("limit", PyInt(100)) >>), upstreams[1]),
             Get(args, "startTime"), Get(args, "endTime"))

-----------------------------------------------------------------------------
(* ExchangeAsyncAPI.cancel_all_orders: pacifica/api/exchange_async.py.     *)

\* coins is None or order.get("coin") in coins
in_coins(coins, coin) ==
    coins = PyNone \/ \E i \in 1..Len(Items(coins)) : Items(coins)[i] = coin

\* ExchangeAsyncAPI.cancel_all_orders, lines 403-406: the cancel request of one order
cancel_request_of(o) ==
    PyDict(<<E("coin", GetOr(o, "coin", PyNone)), E("oid", GetOr(o, "oid", PyNone))>>)

\* the open orders the filter keeps, in the order they were listed
coins_kept(open_orders, coins) ==
    SelectSeq(Items(open_orders), LAMBDA o : in_coins(coins, GetOr(o, "coin", PyNone)))

\* ExchangeAsyncAPI.cancel_all_orders, lines 400-406
cancels_of(open_orders, coins) ==
    [i \in 1..Len(coins_kept(open_orders, coins)) |->
         cancel_request_of(coins_kept(open_orders, coins)[i])]

\* ExchangeAsyncAPI.cancel_all_orders, lines 412-418
NoOrdersReturn ==
    OkReturn("batchCancel", PyDict(<< E("statuses", PyList(<<>>)),
                                      E("message", PyStr("No orders to cancel")) >>))

\* the coroutines batch_cancel makes of the cancel requests, io the open orders fetched
cancel_all_tasks(a, coins, io, timestamp) ==
    batch_cancel_tasks_async(a, cancels_of(io.rv.value, coins), timestamp)

\* batch_cancel gets as far as its await of asyncio.gather
cancel_all_gathers(a, coins, io, timestamp) ==
    /\ ~io.rv.raised
    /\ cancels_of(io.rv.value, coins) # <<>>
    /\ \A i \in 1..Len(cancel_all_tasks(a, coins, io, timestamp)) :
           cancel_all_tasks(a, coins, io, timestamp)[i].exc = ""

\* ExchangeAsyncAPI.cancel_all_orders where it ends without awaiting a cancel:
\* the fetch raised, nothing to cancel, or batch_cancel raised in its loop
cancel_all_fetched(a, coins, io, timestamp) ==
    CASE io.rv.raised -> Outcome(io.rv, <<>>, <<io.sent>>, 0)
      [] cancels_of(io.rv.value, coins) = <<>> ->
           Outcome(Returned(NoOrdersReturn), <<>>, <<io.sent>>, 0)
      [] OTHER -> Outcome(Raised("KeyError"), <<>>, <<io.sent>>, 0)

\* ExchangeAsyncAPI.cancel_all_orders
cancel_all_orders(a, args, timestamp, upstream, k) ==
    cancel_all_fetched(a, Get(args, "coins"), open_orders_async(a, PyNone, upstream), timestamp)

-----------------------------------------------------------------------------
(* bulk_orders: pacifica/api/exchange.py, pacifica/api/exchange_async.py.  *)
(* The dicts of order_requests are the caller's objects: what the loop      *)
(* writes into them is what the caller holds afterwards.                    *)

\* ExchangeAPI.bulk_orders, lines 314-317 (ExchangeAsyncAPI.bulk_orders, 193-196):
\* the order dicts after the loop
bulk_builder_applied(order_requests, builder) ==
    IF Truthy(builder)
    THEN [i \in 1..Len(order_requests) |->
              IF ~Has(order_requests[i], "builder")
              THEN Put(order_requests[i], "builder", builder)
              ELSE order_requests[i]]
    ELSE order_requests

\* the order dicts of the call after the loop
bulk_requests(args) ==
    bulk_builder_applied(Items(Get(args, "order_requests")), Get(args, "builder"))

\* ExchangeAPI.bulk_orders
bulk_orders(a, args, timestamp, upstream, k) ==
    batch_orders(a, PyDict(<<E("orders", PyList(bulk_requests(args)))>>), timestamp, upstream, k)

\* ExchangeAsyncAPI.bulk_orders
bulk_orders_async(a, args, timestamp, upstream, k) ==
    batch_orders_async(a, PyDict(<<E("orders", PyList(bulk_requests(args)))>>),
                       timestamp, upstream, k)

-----------------------------------------------------------------------------
(* The clients and the calls the model explores.                            *)

MaxBatch == 2

Clock == {1700}

\* a signer of its own account, an agent of MAIN, and the two ways a caller
\* may pass "no main account": None and the empty string
Signers ==
    { PacificaAuth("AGENT", PyNone), PacificaAuth("AGENT", PyStr("MAIN")),
      PacificaAuth("AGENT", PyStr("")) }

Auths == Signers \cup {NoAuth}

Limit(inner) == PyDict(<<E("limit", PyDict(inner))>>)

OrderTypes ==
    { PyStr("limit"), PyStr("LIMIT"), PyStr("market"), PyStr("Market"), PyStr("stop"),
      Limit(<<>>), Limit(<<E("tif", PyStr("Gtc"))>>), Limit(<<E("tif", PyStr("GTC"))>>),
      Limit(<<E("tif", PyStr("Ioc"))>>), Limit(<<E("tif", PyStr("Alo"))>>),
      Limit(<<E("tif", PyStr("Tob"))>>), Limit(<<E("tif", PyStr("Fok"))>>),
      PyDict(<<E("market", PyDict(<<>>))>>),
      PyDict(<<E("market", PyDict(<<E("slippage", PyNum("1.5"))>>))>>),
      PyDict(<<E("trigger", PyDict(<<>>))>>) }

Prices == {PyNone, PyNum("100.5")}

Builders ==
    { PyDict(<<E("b", PyStr("BLD"))>>),
      PyDict(<<E("b", PyStr("BLD")), E("f", PyInt(10))>>),
      PyDict(<<E("f", PyInt(10))>>) }

OrderCall(buy, px, ot, cloid, builder) ==
    PyDict(<< E("name", PyStr("BTC")), E("is_buy", PyBool(buy)), E("sz", PyNum("0.01")),
              E("limit_px", px), E("order_type", ot), E("reduce_only", PyBool(FALSE)),
              E("cloid", cloid), E("builder", builder) >>)

\* the arguments of order: every order kind with and without a price, and
\* the client ids and builders on a limit and on a market order
\* sizes, prices and slippages below 1, down to 1e-8
SmallNumbers == {Float("1", -4), Float("4", -5), Float("1", -8)}

OrderArgs ==
    { OrderCall(TRUE, px, ot, PyNone, PyNone) : px \in Prices, ot \in OrderTypes }
    \cup { Put(OrderCall(TRUE, x, Limit(<<>>), PyNone, PyNone), "sz", x) : x \in SmallNumbers }
    \cup { Put(OrderCall(TRUE, x, PyDict(<<E("market", PyDict(<<E("slippage", x)>>))>>),
                         PyNone, PyNone), "sz", x) : x \in SmallNumbers }
    \cup { OrderCall(FALSE, PyNum("100.5"), ot, c, PyNone) :
             ot \in {Limit(<<>>), PyStr("market")}, c \in {PyStr("0xabc"), PyStr("my-id")} }
    \cup { OrderCall(FALSE, PyNum("100.5"), ot, PyNone, b) :
             ot \in {Limit(<<>>), PyStr("market")}, b \in Builders }

BaseItem ==
    PyDict(<< E("name", PyStr("BTC")), E("is_buy", PyBool(TRUE)), E("sz", PyNum("0.01")),
              E("limit_px", PyNum("100.5")) >>)

BatchOrderTypes ==
    { PyStr("limit"), PyStr("MARKET"), PyStr("stop"),
      Limit(<<E("tif", PyStr("Alo"))>>), Limit(<<E("tif", PyStr("Tob"))>>),
      Limit(<<E("tif", PyStr("Fok"))>>), PyDict(<<E("market", PyDict(<<>>))>>),
      PyDict(<<E("trigger", PyDict(<<>>))>>) }

\* the order dicts a caller may put in a batch
BatchItems ==
    { BaseItem, Del(BaseItem, "limit_px"), Put(BaseItem, "limit_px", PyNone) }
    \cup { Put(BaseItem, "order_type", ot) : ot \in BatchOrderTypes }
    \cup { Put(BaseItem, "builder", PyDict(<<E("f", PyInt(10))>>)),
           Put(BaseItem, "cloid", PyStr("my-id")),
           Put(Put(BaseItem, "sz", Float("4", -5)), "limit_px", Float("1", -8)),
           PyDict(<< E("coin", PyStr("ETH")), E("is_buy", PyBool(FALSE)), E("sz", PyNum("2.0")),
                     E("limit_px", PyNum("100.5")), E("cloid", PyStr("0xabc")),
                     E("builder", PyDict(<<E("b", PyStr("BLD")), E("f", PyInt(10))>>)) >>) }

BatchArgs ==
    { PyDict(<<E("orders", PyList(s))>>) :
        s \in UNION {[1..n -> BatchItems] : n \in 0..MaxBatch} }

\* the orders of a bulk call: without a builder, with a builder of its own,
\* with a client id
BulkItems ==
    { BaseItem, Put(BaseItem, "builder", PyDict(<<E("b", PyStr("OWN"))>>)),
      Put(BaseItem, "cloid", PyStr("my-id")) }

\* the global builder: none, an empty dict, a builder
BulkBuilders == {PyNone, PyDict(<<>>), PyDict(<<E("b", PyStr("BLD")), E("f", PyInt(10))>>)}

BulkArgs ==
    { PyDict(<<E("order_requests", PyList(s)), E("builder", b)>>) :
        s \in UNION {[1..n -> BulkItems] : n \in 0..MaxBatch}, b \in BulkBuilders }

CancelArgs ==
    { PyDict(<<E("name", PyStr("BTC")), E("oid", o), E("cloid", c)>>) :
        o \in {PyNone, PyInt(0), PyInt(7)}, c \in {PyNone, PyStr(""), PyStr("my-id")} }

\* the cancel requests a caller may put in a batch: by order id, by client
\* order id, keyed by "coin" as cancel_all_orders builds them, without an
\* identifier, and with an identifier that is None
CancelItems ==
    { PyDict(<<E("name", PyStr("BTC")), E("oid", PyInt(7))>>),
      PyDict(<<E("name", PyStr("ETH")), E("cloid", PyStr("my-id"))>>),
      PyDict(<<E("coin", PyStr("BTC")), E("oid", PyInt(7))>>),
      PyDict(<<E("name", PyStr("BTC"))>>),
      PyDict(<<E("name", PyStr("BTC")), E("oid", PyNone)>>) }

BatchCancelArgs ==
    { PyDict(<<E("cancels", PyList(s))>>) :
        s \in UNION {[1..n -> CancelItems] : n \in 0..MaxBatch} }

LeverageArgs == {PyDict(<<E("name", PyStr("BTC")), E("leverage", PyInt(10))>>)}

MarginModeArgs ==
    {PyDict(<<E("name", PyStr("BTC")), E("is_cross", PyBool(c))>>) : c \in BOOLEAN}

MarginArgs ==
    {PyDict(<<E("name", PyStr("BTC")), E("amount", x)>>) : x \in {PyNum("5.0"), PyNum("-5.0")} \cup SmallNumbers}

\* what the upstream may answer to a write
OrderUpstreams ==
    { Upstream(TRUE, 0, PyNone),
      Upstream(FALSE, 400, PyDict(<<E("msg", PyStr("rejected"))>>)),
      Upstream(FALSE, 404, PyDict(<<E("msg", PyStr("not found"))>>)),
      Upstream(FALSE, 200, PyDict(<< E("success", PyBool(TRUE)),
                                     E("data", PyDict(<<E("order_id", PyInt(7))>>)) >>)),
      Upstream(FALSE, 200, PyDict(<<E("data", PyDict(<<E("order_id", PyInt(7))>>))>>)) }

\* what the upstream may answer to one cancel of a batch
CancelUpstreams ==
    { Upstream(TRUE, 0, PyNone),
      Upstream(FALSE, 400, PyDict(<<E("msg", PyStr("rejected"))>>)),
      Upstream(FALSE, 200, PyDict(<<E("success", PyBool(TRUE))>>)) }

NoUpstream == Upstream(FALSE, 0, PyNone)

\* an open order as the upstream lists it
OpenOrder(symbol, order_id) ==
    PyDict(<< E("symbol", PyStr(symbol)), E("order_id", PyInt(order_id)),
              E("side", PyStr("bid")), E("price", PyStr("100.0")),
              E("amount", PyStr("1.0")), E("created_at", PyInt(20)) >>)

OpenOrderLists ==
    { <<>>, <<OpenOrder("BTC", 7)>>, <<OpenOrder("ETH", 8)>>,
      <<OpenOrder("BTC", 7), OpenOrder("ETH", 8)>>,
      <<OpenOrder("BTC", 7), OpenOrder("BTC", 9)>> }

\* what the upstream may answer to the fetch of the open orders
OpenOrdersUpstreams ==
    { Upstream(TRUE, 0, PyNone),
      Upstream(FALSE, 404, PyDict(<<E("error", PyStr("not found"))>>)),
      Upstream(FALSE, 200, PyDict(<<E("success", PyBool(FALSE))>>)) } \cup
    { Upstream(FALSE, 200, PyDict(<<E("success", PyBool(TRUE)), E("data", PyList(s))>>)) :
        s \in OpenOrderLists }

\* the coins filter: none, one coin, two coins, a coin without orders, no coin
CancelAllArgs ==
    { PyDict(<<E("coins", c)>>) :
        c \in { PyNone, PyList(<<>>), PyList(<<PyStr("BTC")>>), PyList(<<PyStr("SOL")>>),
                PyList(<<PyStr("BTC"), PyStr("ETH")>>) } }

ResultOk == PyDict(<<E("success", PyBool(TRUE)), E("order_id", PyInt(7))>>)

ResultErr == PyDict(<<E("success", PyBool(FALSE)), E("error", PyStr("rejected"))>>)

BatchUpstreams ==
    { Upstream(TRUE, 0, PyNone) } \cup
    { Upstream(FALSE, 200, PyDict(<< E("success", PyBool(TRUE)),
                                     E("data", PyDict(<<E("results", PyList(r))>>)) >>)) :
        r \in {<<>>, <<ResultOk>>, <<ResultErr, ResultOk>>} }

-----------------------------------------------------------------------------
(* The state machine.                                                       *)

\* the locals of retry_with_backoff as the call begins, and what it has done:
\* calls are the outcomes of func() in order, sleeps the delays slept in order
Retrying(attempt, last_exception, calls, sleeps) ==
    [attempt |-> attempt, last_exception |-> last_exception, calls |-> calls, sleeps |-> sleeps]

NoRetry == Retrying(0, "None", <<>>, <<>>)

\* OptimizedClient's loop thread: running says run_forever has not returned,
\* stopping that loop.stop() has run, ready is the loop's queue of callbacks
\* (the number of a coroutine to start, or "stop"), batch the callbacks
\* left in the iteration under way, coros the coroutines submitted, closed
\* that close() has returned
EventLoop(running, stopping, ready, batch, coros, closed) ==
    [running |-> running, stopping |-> stopping, ready |-> ready, batch |-> batch,
     coros |-> coros, closed |-> closed]

\* the loop as _setup_async_loop leaves it: run_forever, nothing to do
NoLoop == EventLoop(TRUE, FALSE, <<>>, 0, <<>>, FALSE)

NoCall == [name |-> "", args |-> PyNone, upstream |-> Upstream(FALSE, 0, PyNone)]

Init ==
    /\ auth \in Auths
    /\ now \in Clock
    /\ pc = "idle"
    /\ op = NoCall
    /\ signed = <<>>
    /\ sent = <<>>
    /\ result = Returned(PyNone)
    /\ uuids = 0
    /\ tasks = <<>>
    /\ retry = NoRetry
    /\ owned = <<>>
    /\ _loop = NoLoop

\* the call `name(args)` ran to its end with outcome `out`
Call(name, args, upstream, out) ==
    /\ pc = "idle"
    /\ op' = [name |-> name, args |-> args, upstream |-> upstream]
    /\ pc' = IF out.rv.raised THEN "raised" ELSE "returned"
    /\ signed' = out.signs
    /\ sent' = out.sends
    /\ result' = out.rv
    /\ uuids' = uuids + out.uuids
    /\ UNCHANGED <<auth, now, tasks, retry, owned, _loop>>

Order ==
    \E args \in OrderArgs, u \in OrderUpstreams :
        Call("order", args, u, order(auth, args, now, u, uuids))

OrderAsync ==
    \E args \in OrderArgs, u \in OrderUpstreams :
        Call("order_async", args, u, order_async(auth, args, now, u, uuids))

BatchOrders ==
    \E args \in BatchArgs, u \in BatchUpstreams :
        Call("batch_orders", args, u, batch_orders(auth, args, now, u, uuids))

BatchOrdersAsync ==
    \E args \in BatchArgs, u \in BatchUpstreams :
        Call("batch_orders_async", args, u, batch_orders_async(auth, args, now, u, uuids))

\* the call `name(args)` ran to its end with outcome `out` and left the
\* caller's order dicts as `after`
BulkCall(name, args, upstream, out, after) ==
    /\ pc = "idle"
    /\ op' = [name |-> name, args |-> args, upstream |-> upstream]
    /\ pc' = IF out.rv.raised THEN "raised" ELSE "returned"
    /\ signed' = out.signs
    /\ sent' = out.sends
    /\ result' = out.rv
    /\ uuids' = uuids + out.uuids
    /\ owned' = after
    /\ UNCHANGED <<auth, now, tasks, retry, _loop>>

BulkOrders ==
    \E args \in BulkArgs, u \in BatchUpstreams :
        BulkCall("bulk_orders", args, u, bulk_orders(auth, args, now, u, uuids),
                 bulk_requests(args))

BulkOrdersAsync ==
    \E args \in BulkArgs, u \in BatchUpstreams :
        BulkCall("bulk_orders_async", args, u, bulk_orders_async(auth, args, now, u, uuids),
                 bulk_requests(args))

Cancel ==
    \E args \in CancelArgs, u \in OrderUpstreams :
        Call("cancel", args, u, cancel(auth, args, now, u, uuids))

CancelAsync ==
    \E args \in CancelArgs, u \in OrderUpstreams :
        Call("cancel_async", args, u, cancel_async(auth, args, now, u, uuids))

\* the sync batch_cancel: one cancel after the other, us[i] the upstream's
\* answer to the cancel of request i
BatchCancel ==
    \E args \in BatchCancelArgs :
        \E us \in [1..Len(Items(Get(args, "cancels"))) -> CancelUpstreams] :
            Call("batch_cancel", args, us, batch_cancel(auth, args, now, us, uuids))

\* tasks as asyncio.gather leaves them at its first suspension: every
\* coroutine has run up to its await of the transport, in the order given
Gathering(name, args, ts) ==
    /\ op' = [name |-> name, args |-> args, upstream |-> [i \in 1..Len(ts) |-> NoUpstream]]
    /\ pc' = "gathering"
    /\ tasks' = [i \in 1..Len(ts) |-> ts[i].task]
    /\ signed' = [i \in 1..Cardinality({j \in 1..Len(ts) : ts[j].task.signs # <<>>}) |->
                      ts[CHOOSE j \in 1..Len(ts) :
                             /\ ts[j].task.signs # <<>>
                             /\ Cardinality({m \in 1..j : ts[m].task.signs # <<>>}) = i
                        ].task.signs[1]]
    /\ sent' = [i \in 1..Cardinality({j \in 1..Len(ts) : ts[j].task.state = "pending"}) |->
                    post_async(auth, "/orders/cancel",
                        ts[CHOOSE j \in 1..Len(ts) :
                               /\ ts[j].task.state = "pending"
                               /\ Cardinality({m \in 1..j : ts[m].task.state = "pending"}) = i
                          ].task.request, FALSE, PyNone, NoUpstream).sent]
    /\ UNCHANGED <<auth, now, result, uuids, retry, owned, _loop>>

\* the calls that await asyncio.gather over cancels
GatherOps == {"batch_cancel_async", "cancel_all_orders"}

\* the async cancel_all_orders up to its return or its raise, or to
\* batch_cancel's await of asyncio.gather
CancelAllOrders ==
    \E args \in CancelAllArgs, u \in OpenOrdersUpstreams :
        IF cancel_all_gathers(auth, Get(args, "coins"), open_orders_async(auth, PyNone, u), now)
        THEN /\ pc = "idle"
             /\ Gathering("cancel_all_orders", args,
                    cancel_all_tasks(auth, Get(args, "coins"),
                                     open_orders_async(auth, PyNone, u), now))
        ELSE Call("cancel_all_orders", args, u, cancel_all_orders(auth, args, now, u, uuids))

\* the async batch_cancel up to its await of asyncio.gather, or to the
\* KeyError of its loop
BatchCancelAsync ==
    \E args \in BatchCancelArgs :
        /\ pc = "idle"
        /\ IF \E i \in 1..Len(Items(Get(args, "cancels"))) :
                  batch_cancel_tasks_async(auth, Items(Get(args, "cancels")), now)[i].exc # ""
           THEN /\ op' = [name |-> "batch_cancel_async", args |-> args, upstream |-> <<>>]
                /\ pc' = "raised"
                /\ result' = Raised("KeyError")
                /\ UNCHANGED <<auth, now, signed, sent, uuids, tasks, retry, owned, _loop>>
           ELSE Gathering("batch_cancel_async", args,
                          batch_cancel_tasks_async(auth, Items(Get(args, "cancels")), now))

\* the upstream answers the cancel of request i, in whatever order
CancelAnswered ==
    \E i \in 1..Len(tasks), u \in CancelUpstreams :
        /\ pc = "gathering"
        /\ op.name \in GatherOps
        /\ tasks[i].state = "pending"
        /\ tasks' = [tasks EXCEPT ![i] =
                         cancel_answered_async(auth, tasks[i], u,
                             1 + Cardinality({j \in 1..Len(tasks) : tasks[j].at > 0}))]
        /\ op' = [op EXCEPT !.upstream[i] = u]
        /\ UNCHANGED <<auth, now, pc, signed, sent, result, uuids, retry, owned, _loop>>

\* every coroutine is done: gather returns and batch_cancel builds its result
BatchCancelGathered ==
    /\ pc = "gathering"
    /\ op.name \in GatherOps
    /\ \A i \in 1..Len(tasks) : tasks[i].state = "done"
    /\ result' = Returned(batch_cancel_gathered_async(tasks))
    /\ pc' = "returned"
    /\ UNCHANGED <<auth, now, op, signed, sent, uuids, tasks, retry, owned, _loop>>

UpdateLeverage ==
    \E args \in LeverageArgs, u \in OrderUpstreams :
        Call("update_leverage", args, u, update_leverage(auth, args, now, u, uuids))

UpdateMarginMode ==
    \E args \in MarginModeArgs, u \in OrderUpstreams :
        Call("update_margin_mode", args, u, update_margin_mode(auth, args, now, u, uuids))

AddMargin ==
    \E args \in MarginArgs, u \in OrderUpstreams :
        Call("add_margin", args, u, add_margin(auth, args, now, u, uuids))

RemoveMargin ==
    \E args \in MarginArgs, u \in OrderUpstreams :
        Call("remove_margin", args, u, remove_margin(auth, args, now, u, uuids))

Next ==
    \/ Order
    \/ OrderAsync
    \/ BatchOrders
    \/ BatchOrdersAsync
    \/ BulkOrders
    \/ BulkOrdersAsync
    \/ Cancel
    \/ CancelAsync
    \/ BatchCancel
    \/ BatchCancelAsync
    \/ CancelAnswered
    \/ BatchCancelGathered
    \/ CancelAllOrders
    \/ UpdateLeverage
    \/ UpdateMarginMode
    \/ AddMargin
    \/ RemoveMargin

Spec == Init /\ [][Next]_vars

-----------------------------------------------------------------------------
(* The reads the model explores, and what the upstream may answer to each  *)
(* of their fetches.                                                        *)

Ok(data) == Upstream(FALSE, 200, PyDict(<<E("success", PyBool(TRUE)), E("data", data)>>))

NotFound == Upstream(FALSE, 404, PyDict(<<E("error", PyStr("not found"))>>))

Down == Upstream(TRUE, 0, PyNone)

Refused == Upstream(FALSE, 200, PyDict(<<E("success", PyBool(FALSE))>>))

AccountData ==
    PyDict(<< E("balance", PyStr("100.0")), E("account_equity", PyStr("100.0")),
              E("total_margin_used", PyStr("0")), E("cross_mmr", PyStr("0")),
              E("available_to_withdraw", PyStr("100.0")) >>)

Position(symbol, side, amount) ==
    PyDict(<< E("symbol", PyStr(symbol)), E("side", PyStr(side)),
              E("amount", PyStr(amount)), E("entry_price", PyStr("100.0")) >>)

\* the lists of positions an account may hold; a position may carry its own
\* leverage
PositionLists ==
    { <<>>,
      <<Position("BTC", "bid", "1.0")>>,
      <<Put(Position("BTC", "bid", "1.0"), "leverage", PyInt(5))>>,
      <<Position("BTC", "bid", "1.0"), Position("ETH", "ask", "2.0")>> }

\* the account's settings: none, per symbol in a map, per symbol in a list
SettingsData ==
    { PyDict(<<>>),
      PyDict(<<E("BTC", PyDict(<<E("leverage", PyInt(15))>>))>>),
      PyList(<<PyDict(<<E("symbol", PyStr("BTC")), E("leverage", PyInt(15))>>)>>) }

\* the markets: none listed, or BTC with a maximum leverage of 50
MarketsData ==
    { PyList(<<>>),
      PyList(<<PyDict(<<E("symbol", PyStr("BTC")), E("max_leverage", PyInt(50))>>)>>) }

AccountUpstreams == {Ok(AccountData), NotFound, Down}

PositionsUpstreams == {Ok(PyList(p)) : p \in PositionLists} \cup {NotFound, Down}

SettingsUpstreams == {Ok(s) : s \in SettingsData} \cup {Down}

InfoUpstreams == {Ok(m) : m \in MarketsData} \cup {Down}

\* the four fetches of user_state: account, positions, settings, markets
UserStateUpstreams ==
    { <<u1, u2, u3, u4>> : u1 \in AccountUpstreams, u2 \in PositionsUpstreams,
                           u3 \in SettingsUpstreams, u4 \in InfoUpstreams }

AddressArgs == {PyDict(<<E("address", x)>>) : x \in {PyNone, PyStr("ADDR")}}

OrdersData ==
    PyList(<<PyDict(<< E("symbol", PyStr("BTC")), E("order_id", PyInt(7)),
                       E("side", PyStr("bid")), E("price", PyStr("100.0")),
                       E("amount", PyStr("1.0")), E("created_at", PyInt(20)) >>)>>)

TradesData ==
    PyList(<<PyDict(<< E("symbol", PyStr("BTC")), E("price", PyStr("100.0")),
                       E("amount", PyStr("1.0")), E("side", PyStr("long_open")),
                       E("created_at", PyInt(20)), E("order_id", PyInt(7)) >>)>>)

\* a funding payment made by the account: the amount is negative
FundingData ==
    PyList(<<PyDict(<< E("symbol", PyStr("BTC")), E("funding_rate", PyStr("-0.0001")),
                       E("position_size", PyStr("1.0")), E("timestamp", PyInt(20)),
                       E("tx_hash", PyStr("0xf1")), E("funding_amount", PyStr("-0.5")) >>)>>)

PricesData ==
    PyList(<<PyDict(<<E("symbol", PyStr("BTC")), E("mid", PyStr("100.0"))>>)>>)

RatesData ==
    PyList(<<PyDict(<< E("symbol", PyStr("BTC")), E("funding_rate", PyStr("-0.0001")),
                       E("next_funding_time", PyInt(30)) >>)>>)

OpenInterestData ==
    PyList(<<PyDict(<< E("symbol", PyStr("BTC")), E("open_interest", PyStr("2.0")),
                       E("open_interest_value", PyStr("200.0")) >>)>>)

\* the seven fetches of get_account_summary: the four of user_state, then
\* the open orders, the trade history and the funding history
AccountSummaryUpstreams ==
    { <<u1, u2, u3, u4, u5, u6, u7>> :
        u1 \in {Ok(AccountData), NotFound},
        u2 \in {Ok(PyList(<<Position("BTC", "bid", "1.0")>>)), NotFound},
        u3 \in {Ok(PyDict(<<>>)), Down},
        u4 \in {Ok(PyList(<<>>)), Down},
        u5 \in {Ok(OrdersData), Down},
        u6 \in {Ok(TradesData), Down},
        u7 \in {Ok(FundingData), Down} }

\* the four fetches of get_market_summary: markets, prices, funding rates,
\* open interest
MarketSummaryUpstreams ==
    { <<u1, u2, u3, u4>> :
        u1 \in {Ok(PyList(<<PyDict(<<E("symbol", PyStr("BTC"))>>)>>)), Down},
        u2 \in {Ok(PricesData), Down},
        u3 \in {Ok(RatesData), Down},
        u4 \in {Ok(OpenInterestData), Down} }

NoArgs == PyDict(<<>>)

FundingArgs ==
    { PyDict(<<E("address", x), E("start_time", PyInt(t))>>) :
        x \in {PyNone, PyStr("ADDR")}, t \in {0, 5} }

\* what the upstream may answer to a fetch of a list
ListUpstreams(data) ==
    { <<u>> : u \in {Ok(data), Ok(PyList(<<>>)), NotFound, Down, Refused,
                     Upstream(FALSE, 500, PyDict(<<E("error", PyStr("internal"))>>))} }

\* the longest balance history the upstream answers with
MaxEvents == 3

BalanceEvent(kind, created_at) ==
    PyDict(<< E("event_type", PyStr(kind)), E("created_at", PyInt(created_at)),
              E("amount", PyStr("1.0")), E("tx_hash", PyStr("0xb" \o ToString(created_at))) >>)

\* balance events before, inside and after the window [20, 30]
BalanceEvents ==
    { BalanceEvent("deposit", 10), BalanceEvent("deposit", 25),
      BalanceEvent("fee", 25), BalanceEvent("withdraw", 35) }

\* the balance histories, in whatever order the upstream lists the events
BalanceHistories ==
    UNION { [1..n -> BalanceEvents] : n \in 0..MaxEvents }

LedgerUpstreams == {<<Ok(PyList(h))>> : h \in BalanceHistories} \cup {<<Down>>}

LedgerArgs ==
    { PyDict(<<E("user", u), E("startTime", PyInt(20)), E("endTime", e)>>) :
        u \in {PyStr(""), PyStr("ADDR")}, e \in {PyNone, PyInt(30)} }

UserState ==
    \E args \in AddressArgs, us \in UserStateUpstreams :
        Call("user_state", args, us, user_state(auth, args, now, us, uuids))

UserStateAsync ==
    \E args \in AddressArgs, us \in UserStateUpstreams :
        Call("user_state_async", args, us, user_state_async(auth, args, now, us, uuids))

ClientUserState ==
    \E args \in AddressArgs, us \in UserStateUpstreams :
        Call("client_user_state", args, us, client_user_state(auth, args, now, us, uuids))

GetAccountSummary ==
    \E args \in AddressArgs, us \in AccountSummaryUpstreams :
        Call("get_account_summary", args, us,
             get_account_summary(auth, args, now, us, uuids))

GetMarketSummary ==
    \E us \in MarketSummaryUpstreams :
        Call("get_market_summary", NoArgs, us,
             get_market_summary(auth, NoArgs, now, us, uuids))

UserFunding ==
    \E args \in FundingArgs, us \in ListUpstreams(FundingData) :
        Call("user_funding", args, us, user_funding(auth, args, now, us, uuids))

UserFundingAsync ==
    \E args \in FundingArgs, us \in ListUpstreams(FundingData) :
        Call("user_funding_async", args, us, user_funding_async(auth, args, now, us, uuids))

FundingRates ==
    \E us \in ListUpstreams(RatesData) :
        Call("funding_rates", NoArgs, us, funding_rates(auth, NoArgs, now, us, uuids))

FundingRatesAsync ==
    \E us \in ListUpstreams(RatesData) :
        Call("funding_rates_async", NoArgs, us,
             funding_rates_async(auth, NoArgs, now, us, uuids))

OpenInterest ==
    \E us \in ListUpstreams(OpenInterestData) :
        Call("open_interest", NoArgs, us, open_interest(auth, NoArgs, now, us, uuids))

OpenInterestAsync ==
    \E us \in ListUpstreams(OpenInterestData) :
        Call("open_interest_async", NoArgs, us,
             open_interest_async(auth, NoArgs, now, us, uuids))

UserNonFundingLedgerUpdates ==
    \E args \in LedgerArgs, us \in LedgerUpstreams :
        Call("user_non_funding_ledger_updates", args, us,
             user_non_funding_ledger_updates(auth, args, now, us, uuids))

NextInfo ==
    \/ UserState
    \/ UserStateAsync
    \/ ClientUserState
    \/ GetAccountSummary
    \/ GetMarketSummary
    \/ UserFunding
    \/ UserFundingAsync
    \/ FundingRates
    \/ FundingRatesAsync
    \/ OpenInterest
    \/ OpenInterestAsync
    \/ UserNonFundingLedgerUpdates

SpecInfo == Init /\ [][NextInfo]_vars

-----------------------------------------------------------------------------
(* The transformers and formatters called on their own: each call applies   *)
(* one of them to an input drawn from the sets below.                       *)

\* the call `name(args)` of a function that signs and sends nothing returned v
Applied(name, args, v) == Call(name, args, NoUpstream, Outcome(Returned(v), signed, sent, 0))

\* the longest list of balance events handed to the transformer
MaxLedger == 5

EventKinds == {"deposit", "deposit_release", "withdraw", "subaccount_transfer", "fee"}

\* the i-th event of a list is of the i-th kind and was made at time i
EventsOf(kinds) == [i \in 1..Len(kinds) |-> BalanceEvent(kinds[i], i)]

EventLists == {EventsOf(kinds) : kinds \in UNION {[1..n -> EventKinds] : n \in 0..MaxLedger}}

TransformNonFundingLedgerUpdates ==
    \E events \in EventLists :
        Applied("transform_non_funding_ledger_updates",
                PyDict(<<E("events", PyList(events))>>),
                transform_non_funding_ledger_updates(events))

\* "long" in side.lower() on the trade tags of the model, all in lower case
has_long(side) == side \in {"long_open", "long_close", "open_long", "close_long"}

\* ResponseTransformer.transform_side
transform_side(side, context) ==
    CASE context = "position" -> "bid"
      [] context = "trade" -> IF has_long(side) \/ side = "bid" THEN "B" ELSE "S"
      [] context = "order" -> IF side = "bid" THEN "B" ELSE "A"
      [] OTHER -> side

\* the tags a trade carries as its side: the plain sides and the compound
\* tags in both of their namings
TradeTags ==
    {"bid", "ask", "long_open", "long_close", "short_open", "short_close",
     "open_long", "close_long", "open_short", "close_short"}

SideContexts == {"position", "trade", "order", "other"}

TransformSide ==
    \E side \in TradeTags, context \in SideContexts :
        Applied("transform_side",
                PyDict(<<E("side", PyStr(side)), E("context", PyStr(context))>>),
                PyStr(transform_side(side, context)))

\* the longest trade history handed to the transformer
MaxTrades == 2

Trade(side, order_id) ==
    PyDict(<< E("symbol", PyStr("BTC")), E("price", PyStr("100.0")),
              E("amount", PyStr("1.0")), E("side", PyStr(side)),
              E("created_at", PyInt(20)), E("order_id", PyInt(order_id)) >>)

\* a trade of every tag for order 7, and one trade for another order
Trades == {Trade(side, 7) : side \in TradeTags} \cup {Trade("bid", 8)}

TradeLists == UNION {[1..n -> Trades] : n \in 0..MaxTrades}

TransformUserFills ==
    \E trades \in TradeLists, oid \in {PyNone, PyInt(7)} :
        Applied("transform_user_fills",
                PyDict(<<E("trades_response", PyDict(<<E("data", PyList(trades))>>)),
                         E("oid", oid)>>),
                transform_user_fills(PyDict(<<E("data", PyList(trades))>>), oid))

\* MarketTransformer.transform_l2_book, lines 55-67: one level, price_size[0]
\* and price_size[1]; indexing an object per level by 0 raises
market_level(price_size) ==
    PyDict(<< E("px", Items(price_size)[1]), E("sz", Items(price_size)[2]),
              E("n", PyInt(1)) >>)

\* book.get(side, []) as a sequence
BookLevels(book, side) == Items(GetOr(book, side, PyList(<<>>)))

\* MarketTransformer.transform_l2_book, lines 54-72, book the data of the
\* response
market_l2_book_of(book) ==
    IF \E i \in 1..Len(BookLevels(book, "bids") \o BookLevels(book, "asks")) :
           (BookLevels(book, "bids") \o BookLevels(book, "asks"))[i].t = "dict"
    THEN Raised("KeyError")
    ELSE Returned(PyDict(<<
             E("coin", GetOr(book, "symbol", PyStr(""))),
             E("levels", PyList(<<PyList(
                 [i \in 1..Len(BookLevels(book, "bids")) |->
                      market_level(BookLevels(book, "bids")[i])] \o
                 [i \in 1..Len(BookLevels(book, "asks")) |->
                      market_level(BookLevels(book, "asks")[i])])>>)),
             E("time", GetOr(book, "timestamp", PyInt(0))) >>))

\* MarketTransformer.transform_l2_book
transform_l2_book(book_response) ==
    market_l2_book_of(GetOr(book_response, "data", PyDict(<<>>)))

\* AccountTransformer.transform_l2_book, lines 293-305: the i-th level of a
\* side; .get on a [price, size] pair raises
account_level(i, level) ==
    PyDict(<< E("n", PyInt(i)), E("px", GetOr(level, "price", PyStr("0"))),
              E("sz", GetOr(level, "size", PyStr("0"))) >>)

\* AccountTransformer.transform_l2_book, lines 287-311, book_data the data of
\* the response
account_l2_book_of(book_data) ==
    IF \E i \in 1..Len(BookLevels(book_data, "bids") \o BookLevels(book_data, "asks")) :
           (BookLevels(book_data, "bids") \o BookLevels(book_data, "asks"))[i].t = "list"
    THEN Raised("AttributeError")
    ELSE Returned(PyDict(<<
             E("coin", GetOr(book_data, "symbol", PyStr(""))),
             E("levels", PyList(<<PyList(<<
                 PyList([i \in 1..Len(BookLevels(book_data, "bids")) |->
                             account_level(i, BookLevels(book_data, "bids")[i])]),
                 PyList([i \in 1..Len(BookLevels(book_data, "asks")) |->
                             account_level(i, BookLevels(book_data, "asks")[i])]) >>)>>)),
             E("time", GetOr(book_data, "timestamp", PyInt(0))) >>))

\* AccountTransformer.transform_l2_book
account_transform_l2_book(book_response) ==
    account_l2_book_of(GetOr(book_response, "data", PyDict(<<>>)))

\* the most levels on one side of a book
MaxLevels == 2

\* a raw level in one of the two shapes: an object, or a [price, size] pair
RawLevel(shape, price, size) ==
    IF shape = "object"
    THEN PyDict(<<E("price", PyStr(price)), E("size", PyStr(size))>>)
    ELSE PyList(<<PyStr(price), PyStr(size)>>)

BookShapes == {"object", "pair"}

\* the sides of a book: up to MaxLevels levels, each of one of two prices
BookSides == UNION {[1..n -> {<<"100.0", "1.0">>, <<"101.0", "2.0">>}] : n \in 0..MaxLevels}

BookSide(shape, levels) ==
    PyList([i \in 1..Len(levels) |-> RawLevel(shape, levels[i][1], levels[i][2])])

BookResponse(shape, bids, asks) ==
    PyDict(<<E("data", PyDict(<<
        E("symbol", PyStr("BTC")), E("bids", BookSide(shape, bids)),
        E("asks", BookSide(shape, asks)), E("timestamp", PyInt(20)) >>))>>)

\* the call `name(args)` of a function that signs and sends nothing ended rv
Ended(name, args, rv) == Call(name, args, NoUpstream, Outcome(rv, signed, sent, 0))

TransformL2Book ==
    \E shape \in BookShapes, bids \in BookSides, asks \in BookSides :
        Ended("transform_l2_book",
              PyDict(<<E("book_response", BookResponse(shape, bids, asks))>>),
              transform_l2_book(BookResponse(shape, bids, asks)))

AccountTransformL2Book ==
    \E shape \in BookShapes, bids \in BookSides, asks \in BookSides :
        Ended("account_transform_l2_book",
              PyDict(<<E("book_response", BookResponse(shape, bids, asks))>>),
              account_transform_l2_book(BookResponse(shape, bids, asks)))

NextTransform ==
    \/ TransformNonFundingLedgerUpdates
    \/ TransformSide
    \/ TransformUserFills
    \/ TransformL2Book
    \/ AccountTransformL2Book

SpecTransform == Init /\ [][NextTransform]_vars

-----------------------------------------------------------------------------
(* BaseAsyncAPIClient.retry_with_backoff: pacifica/api/base_async.py.  The *)
(* coroutine is followed from one suspension to the next: the await of     *)
(* func() and the await of asyncio.sleep.                                   *)

MaxRetries == 3

min(a, b) == IF a <= b THEN a ELSE b

\* a delay that is never capped
backoff_delay_uncapped(base_delay, attempt, max_delay) == base_delay * (2 ^ attempt)

\* BaseAsyncAPIClient.retry_with_backoff, line 308
backoff_delay(base_delay, attempt, max_delay) == min(base_delay * (2 ^ attempt), max_delay)

\* isinstance(e, Exception): CancelledError is a BaseException only
is_exception(exc) == exc # "CancelledError"

\* what one call of func may do
FuncOutcomes ==
    { Returned(PyStr("done")), Raised("PacificaAPIError"), Raised("ClientError"),
      Raised("CancelledError") }

\* max_retries, base_delay and max_delay of the call, delays in seconds
RetryArgs ==
    { PyDict(<<E("max_retries", PyInt(m)), E("base_delay", PyInt(b)), E("max_delay", PyInt(c))>>) :
        m \in 0..MaxRetries, b \in {1, 2}, c \in {3, 60} }

max_retries == Get(op.args, "max_retries").n

\* retry_with_backoff is called: last_exception = None, the loop is entered
RetryWithBackoff ==
    \E args \in RetryArgs :
        /\ pc = "idle"
        /\ op' = [name |-> "retry_with_backoff", args |-> args, upstream |-> NoUpstream]
        /\ pc' = "looping"
        /\ retry' = NoRetry
        /\ UNCHANGED <<auth, now, signed, sent, result, uuids, tasks, owned, _loop>>

\* lines 303-304: func() returns and retry_with_backoff returns its result
FuncReturned ==
    \E out \in FuncOutcomes :
        /\ pc = "looping"
        /\ op.name = "retry_with_backoff"
        /\ retry.attempt < max_retries
        /\ ~out.raised
        /\ retry' = [retry EXCEPT !.calls = Append(@, out)]
        /\ result' = out
        /\ pc' = "returned"
        /\ UNCHANGED <<auth, now, op, signed, sent, uuids, tasks, owned, _loop>>

\* lines 305-312: func() raises an Exception; the coroutine sleeps unless
\* this was the last attempt
FuncRaised ==
    \E out \in FuncOutcomes :
        /\ pc = "looping"
        /\ op.name = "retry_with_backoff"
        /\ retry.attempt < max_retries
        /\ out.raised
        /\ is_exception(out.exc)
        /\ IF retry.attempt < max_retries - 1
           THEN /\ retry' = [retry EXCEPT
                                 !.last_exception = out.exc,
                                 !.calls = Append(@, out),
                                 !.sleeps = Append(@, backoff_delay(Get(op.args, "base_delay").n,
                                                                    retry.attempt,
                                                                    Get(op.args, "max_delay").n))]
                /\ pc' = "sleeping"
           ELSE /\ retry' = [retry EXCEPT
                                 !.last_exception = out.exc,
                                 !.calls = Append(@, out),
                                 !.attempt = @ + 1]
                /\ pc' = "looping"
        /\ UNCHANGED <<auth, now, op, signed, sent, result, uuids, tasks, owned, _loop>>

\* func() raises what `except Exception` does not catch: it leaves the call
FuncCancelled ==
    \E out \in FuncOutcomes :
        /\ pc = "looping"
        /\ op.name = "retry_with_backoff"
        /\ retry.attempt < max_retries
        /\ out.raised
        /\ ~is_exception(out.exc)
        /\ retry' = [retry EXCEPT !.calls = Append(@, out)]
        /\ result' = out
        /\ pc' = "raised"
        /\ UNCHANGED <<auth, now, op, signed, sent, uuids, tasks, owned, _loop>>

\* line 310: asyncio.sleep returns, the loop takes the next attempt
Slept ==
    /\ pc = "sleeping"
    /\ op.name = "retry_with_backoff"
    /\ retry' = [retry EXCEPT !.attempt = @ + 1]
    /\ pc' = "looping"
    /\ UNCHANGED <<auth, now, op, signed, sent, result, uuids, tasks, owned, _loop>>

\* line 314: the loop is over, `raise last_exception`; raising None is a TypeError
RaiseLast ==
    /\ pc = "looping"
    /\ op.name = "retry_with_backoff"
    /\ retry.attempt >= max_retries
    /\ result' = Raised(IF retry.last_exception = "None" THEN "TypeError"
                        ELSE retry.last_exception)
    /\ pc' = "raised"
    /\ UNCHANGED <<auth, now, op, signed, sent, uuids, tasks, retry, owned, _loop>>

NextRetry ==
    \/ RetryWithBackoff
    \/ FuncReturned
    \/ FuncRaised
    \/ FuncCancelled
    \/ Slept
    \/ RaiseLast

SpecRetry == Init /\ [][NextRetry]_vars

\* func() and asyncio.sleep complete, and the event loop resumes the coroutine
FairRetry == SpecRetry /\ WF_vars(FuncReturned \/ FuncRaised \/ FuncCancelled \/ Slept \/ RaiseLast)

-----------------------------------------------------------------------------
(* OptimizedClient: pacifica/client_optimized.py.  Two threads: the caller *)
(* in _run_async and close, and the daemon thread in loop.run_forever().    *)
(* The coroutine submitted is ExchangeAsyncAPI.cancel of one order.         *)

MaxCalls == 2

\* a coroutine given to run_coroutine_threadsafe: state is "scheduled" until
\* the loop starts it, "sent" while it awaits the answer to its request,
\* "done" when it has ended; timed_out says the caller's future.result
\* raised a timeout error
Coroutine(state, timed_out) == [state |-> state, timed_out |-> timed_out]

\* the cancel the i-th call of the caller asks for
LoopCancel(i) == CancelCall(PyStr("BTC"), PyInt(i), PyNone)

\* OptimizedClient._run_async, lines 107-111: the coroutine is handed to the
\* loop with call_soon_threadsafe and the caller blocks in future.result;
\* _loop stays set after close, so the guard of line 107 never raises
RunAsync ==
    /\ pc \in {"idle", "returned", "raised", "closed"}
    /\ op.name \in {"", "run_async", "close"}
    /\ Len(_loop.coros) < MaxCalls
    /\ op' = [name |-> "run_async", args |-> LoopCancel(Len(_loop.coros) + 1),
              upstream |-> NoUpstream]
    /\ pc' = "waiting"
    /\ _loop' = [_loop EXCEPT !.coros = Append(@, Coroutine("scheduled", FALSE)),
                            !.ready = Append(@, ToString(Len(_loop.coros) + 1))]
    /\ UNCHANGED <<auth, now, signed, sent, result, uuids, tasks, retry, owned>>

\* BaseEventLoop._run_once: an iteration takes the callbacks that are ready now
IterationBegins ==
    /\ _loop.running
    /\ _loop.batch = 0
    /\ _loop.ready # <<>>
    /\ _loop' = [_loop EXCEPT !.batch = Len(_loop.ready)]
    /\ UNCHANGED <<auth, now, pc, op, signed, sent, result, uuids, tasks, retry, owned>>

\* run_forever returns after the iteration in which loop.stop() ran
StopsAfter(batch, stopping) == batch = 0 /\ stopping

\* the iteration starts coroutine i: ExchangeAsyncAPI.cancel runs up to its
\* await of the transport, the request is signed and goes out
CoroutineStarts ==
    \E i \in 1..Len(_loop.coros) :
        /\ _loop.running
        /\ _loop.batch > 0
        /\ Head(_loop.ready) = ToString(i)
        /\ signed' = signed \o cancel_task_async(auth, LoopCancel(i), now).signs
        /\ sent' = Append(sent, post_async(auth, "/orders/cancel",
                                    cancel_task_async(auth, LoopCancel(i), now).request,
                                    FALSE, PyNone, NoUpstream).sent)
        /\ _loop' = [_loop EXCEPT !.coros[i].state = "sent",
                                !.ready = Tail(@),
                                !.batch = @ - 1,
                                !.running = ~StopsAfter(_loop.batch - 1, _loop.stopping)]
        /\ UNCHANGED <<auth, now, pc, op, result, uuids, tasks, retry, owned>>

\* the iteration runs loop.stop(), which close() scheduled
StopRuns ==
    /\ _loop.running
    /\ _loop.batch > 0
    /\ Head(_loop.ready) = "stop"
    /\ _loop' = [_loop EXCEPT !.stopping = TRUE,
                            !.ready = Tail(@),
                            !.batch = @ - 1,
                            !.running = ~StopsAfter(_loop.batch - 1, TRUE)]
    /\ UNCHANGED <<auth, now, pc, op, signed, sent, result, uuids, tasks, retry, owned>>

\* the caller is blocked in future.result of coroutine i
WaitingFor(i) == pc = "waiting" /\ i = Len(_loop.coros)

\* the upstream answers the request of coroutine i and the loop resumes it:
\* the future is resolved, the caller blocked on it returns or raises
CoroutineAnswered ==
    \E i \in 1..Len(_loop.coros), u \in CancelUpstreams :
        /\ _loop.running
        /\ _loop.batch = 0
        /\ _loop.coros[i].state = "sent"
        /\ _loop' = [_loop EXCEPT !.coros[i].state = "done"]
        /\ IF WaitingFor(i)
           THEN /\ result' = cancel_sent_async(<<>>,
                                 post_async(auth, "/orders/cancel", PyNone, FALSE, PyNone, u)).rv
                /\ pc' = IF cancel_sent_async(<<>>,
                                post_async(auth, "/orders/cancel", PyNone, FALSE, PyNone, u)
                            ).rv.raised
                         THEN "raised" ELSE "returned"
           ELSE UNCHANGED <<result, pc>>
        /\ UNCHANGED <<auth, now, op, signed, sent, uuids, tasks, retry, owned>>

\* aiohttp's ClientTimeout(total=timeout) ends the request of coroutine i:
\* asyncio.TimeoutError leaves the coroutine and future.result raises it
RequestTimesOut ==
    \E i \in 1..Len(_loop.coros) :
        /\ _loop.running
        /\ _loop.batch = 0
        /\ _loop.coros[i].state = "sent"
        /\ _loop' = [_loop EXCEPT !.coros[i].state = "done",
                                !.coros[i].timed_out = WaitingFor(i)]
        /\ IF WaitingFor(i)
           THEN result' = Raised("TimeoutError") /\ pc' = "raised"
           ELSE UNCHANGED <<result, pc>>
        /\ UNCHANGED <<auth, now, op, signed, sent, uuids, tasks, retry, owned>>

\* OptimizedClient._run_async, line 111: future.result(timeout) gives up; the
\* future is not cancelled and the coroutine stays with the loop
ResultTimesOut ==
    /\ pc = "waiting"
    /\ op.name = "run_async"
    /\ _loop.coros[Len(_loop.coros)].state # "done"
    /\ _loop' = [_loop EXCEPT !.coros[Len(_loop.coros)].timed_out = TRUE]
    /\ result' = Raised("TimeoutError")
    /\ pc' = "raised"
    /\ UNCHANGED <<auth, now, op, signed, sent, uuids, tasks, retry, owned>>

\* OptimizedClient.close, lines 129-132: loop.stop is scheduled and the caller joins
Close ==
    /\ pc \in {"idle", "returned", "raised"}
    /\ op.name \in {"", "run_async"}
    /\ op' = [name |-> "close", args |-> PyNone, upstream |-> NoUpstream]
    /\ pc' = "joining"
    /\ _loop' = [_loop EXCEPT !.ready = Append(@, "stop")]
    /\ UNCHANGED <<auth, now, signed, sent, result, uuids, tasks, retry, owned>>

\* OptimizedClient.close, lines 131-133: the thread has ended, join returns
Joined ==
    /\ pc = "joining"
    /\ ~_loop.running
    /\ pc' = "closed"
    /\ _loop' = [_loop EXCEPT !.closed = TRUE]
    /\ UNCHANGED <<auth, now, op, signed, sent, result, uuids, tasks, retry, owned>>

\* OptimizedClient.close, line 132: join(timeout=1) gives up on a thread that
\* is still running; close returns all the same
JoinTimesOut ==
    /\ pc = "joining"
    /\ _loop.running
    /\ pc' = "closed"
    /\ _loop' = [_loop EXCEPT !.closed = TRUE]
    /\ UNCHANGED <<auth, now, op, signed, sent, result, uuids, tasks, retry, owned>>

NextLoop ==
    \/ RunAsync
    \/ IterationBegins
    \/ CoroutineStarts
    \/ StopRuns
    \/ CoroutineAnswered
    \/ RequestTimesOut
    \/ ResultTimesOut
    \/ Close
    \/ Joined
    \/ JoinTimesOut

SpecLoop == Init /\ [][NextLoop]_vars

-----------------------------------------------------------------------------
(* Direct calls of PacificaAuth.sign_message: the headers and payloads a    *)
(* caller may pass, in every insertion order of their keys.                 *)

\* the sequences that list every element of the set S once
Orderings(S) ==
    {s \in [1..Cardinality(S) -> S] : \A i, j \in 1..Cardinality(S) : s[i] = s[j] => i = j}

\* the values that hold the keys and values of v, with the keys of every dict
\* at every depth in any insertion order, and every list in the order of v
RECURSIVE Reorderings(_)
RECURSIVE KidsReorderings(_, _)
KidsReorderings(kids, i) ==
    IF i > Len(kids) THEN {<<>>}
    ELSE {<<E(kids[i].k, w)>> \o rest :
              w \in Reorderings(kids[i].v), rest \in KidsReorderings(kids, i + 1)}

Reorderings(v) ==
    CASE v.t = "dict" ->
           {PyDict(s) : s \in UNION {Orderings({c[i] : i \in 1..Len(c)}) :
                                         c \in KidsReorderings(v.kids, 1)}}
      [] v.t = "list" -> {Node("list", "", 0, c) : c \in KidsReorderings(v.kids, 1)}
      [] OTHER -> {v}

HeaderFields(timestamp) ==
    { E("type", PyStr("create_order")), E("timestamp", PyInt(timestamp)),
      E("expiry_window", PyInt(5000)) }

\* headers with all, some or none of the required keys, in every order, and
\* headers with a key more
HeaderInputs(timestamp) ==
    {PyDict(s) : s \in UNION {Orderings(S) : S \in SUBSET HeaderFields(timestamp)}}
    \cup {PyDict(<<E("nonce", PyInt(7))>> \o s) : s \in Orderings(HeaderFields(timestamp))}

ZA == PyDict(<<E("z", PyInt(1)), E("a", PyInt(2))>>)

PayloadBases ==
    { PyDict(<<>>),
      PyDict(<<E("symbol", PyStr("BTC")), E("amount", PyStr("0.01"))>>),
      PyDict(<<E("b", ZA), E("a", PyList(<<ZA, PyInt(3), PyInt(1)>>))>>),
      PyDict(<<E("a", PyList(<<PyList(<<ZA>>), PyStr("x")>>))>>) }

PayloadInputs == UNION {Reorderings(p) : p \in PayloadBases}

SignMessage ==
    \E header \in HeaderInputs(now), payload \in PayloadInputs :
        /\ pc = "idle"
        /\ auth.present
        /\ op' = [name |-> "sign_message",
                  args |-> PyDict(<<E("header", header), E("payload", payload)>>),
                  upstream |-> NoCall.upstream]
        /\ pc' = IF sign_message(auth, header, payload).raised THEN "raised" ELSE "returned"
        /\ signed' = IF sign_message(auth, header, payload).raised THEN <<>>
                     ELSE <<sign_message(auth, header, payload)>>
        /\ result' = IF sign_message(auth, header, payload).raised
                     THEN Raised(sign_message(auth, header, payload).exc)
                     ELSE Returned(sign_message(auth, header, payload).signature)
        /\ sent' = <<>>
        /\ UNCHANGED <<auth, now, uuids, tasks, retry, owned, _loop>>

NextSign == SignMessage

SpecSign == Init /\ [][NextSign]_vars

-----------------------------------------------------------------------------
(* What the properties below read off a finished call.                      *)

OrderOps == {"order", "order_async", "batch_orders", "batch_orders_async"}

BatchOps == {"batch_orders", "batch_orders_async"}

\* the order dicts of the call: the arguments of order, the items of a batch
OrderRequests ==
    IF op.name \in BatchOps THEN Items(Get(op.args, "orders")) ELSE <<op.args>>

\* the order_type of the i-th order of the call, with the default of its operation
OrderTypeOf(i) ==
    GetOr(OrderRequests[i], "order_type",
          IF op.name = "batch_orders" THEN DefaultOrderType ELSE DefaultOrderTypeAsync)

\* the price the caller gave for the i-th order of the call, None if none
PriceOf(i) == GetOr(OrderRequests[i], "limit_px", PyNone)

IsLimitKind(order_type) ==
    \/ order_type.t = "str" /\ lower(order_type.s) = "limit"
    \/ order_type.t = "dict" /\ Has(order_type, "limit")

IsMarketKind(order_type) ==
    \/ order_type.t = "str" /\ lower(order_type.s) = "market"
    \/ order_type.t = "dict" /\ Has(order_type, "market") /\ ~Has(order_type, "limit")

\* the time-in-force the caller gave with a limit order, None if none
TifOf(order_type) ==
    IF order_type.t = "dict" /\ Has(order_type, "limit")
    THEN GetOr(Get(order_type, "limit"), "tif", PyNone)
    ELSE PyNone

\* the envelopes in the requests the call sent
Envelopes ==
    CASE sent = <<>> -> <<>>
      [] op.name \in BatchOps ->
           [i \in 1..Len(Get(sent[1].data, "actions").kids) |->
                Get(Get(sent[1].data, "actions").kids[i].v, "data")]
      [] OTHER -> <<sent[1].data>>

\* the call `name(args)` made again from the state the call of op was made in
Again(name, args) ==
    CASE name = "order" -> order(auth, args, now, op.upstream, 0)
      [] name = "order_async" -> order_async(auth, args, now, op.upstream, 0)
      [] name = "batch_orders" -> batch_orders(auth, args, now, op.upstream, 0)
      [] OTHER -> batch_orders_async(auth, args, now, op.upstream, 0)

\* the dict form of a legacy string order kind
DictForm(order_type) ==
    IF order_type.t = "str" /\ lower(order_type.s) = "limit"
    THEN PyDict(<<E("limit", PyDict(<<E("tif", PyStr("GTC"))>>))>>)
    ELSE IF order_type.t = "str" /\ lower(order_type.s) = "market"
    THEN PyDict(<<E("market", PyDict(<<>>))>>)
    ELSE order_type

\* the arguments of the call with every legacy string kind in its dict form
InDictForm(args) ==
    IF op.name \in BatchOps
    THEN PyDict(<<E("orders", PyList(
             [i \in 1..Len(Items(Get(args, "orders"))) |->
                  IF Has(Items(Get(args, "orders"))[i], "order_type")
                  THEN Put(Items(Get(args, "orders"))[i], "order_type",
                           DictForm(Get(Items(Get(args, "orders"))[i], "order_type")))
                  ELSE Items(Get(args, "orders"))[i]]))>>)
    ELSE Put(args, "order_type", DictForm(Get(args, "order_type")))

\* what was signed, message by message: the payload and the header's type
SignedAs(signs) ==
    [i \in 1..Len(signs) |-> <<signs[i].payload, Get(signs[i].header, "type")>>]

\* the keys of every dict of v, at every depth, are in ascending order
RECURSIVE Ascending(_)
Ascending(v) ==
    /\ v.t = "dict" => \A i \in 1..(Len(v.kids) - 1) : StrLess(v.kids[i].k, v.kids[i + 1].k)
    /\ v.t \in {"dict", "list"} => \A i \in 1..Len(v.kids) : Ascending(v.kids[i].v)

\* x and y hold the same keys and values, every list in the same order
RECURSIVE SameValue(_, _)
SameValue(x, y) ==
    CASE x.t = "dict" /\ y.t = "dict" ->
           /\ KeySet(x) = KeySet(y)
           /\ Len(x.kids) = Len(y.kids)
           /\ \A k \in KeySet(x) : SameValue(Get(x, k), Get(y, k))
      [] x.t = "list" /\ y.t = "list" ->
           /\ Len(x.kids) = Len(y.kids)
           /\ \A i \in 1..Len(x.kids) : SameValue(x.kids[i].v, y.kids[i].v)
      [] OTHER -> x = y

-----------------------------------------------------------------------------
(* The properties.                                                          *)

\* C1: with a signer configured, every envelope _build_request_with_auth made
\* (sync and async) holds account = get_account(), the signature, the timestamp
\* and expiry_window = 5000 of the signed header, every payload field, and an
\* agent_wallet key that is always present: the signer's own address in agent
\* mode, null otherwise.
C1_Envelope ==
    auth.present /\ op.name \in OrderOps \cup {"cancel"} =>
        \A i \in 1..Len(Envelopes) :
            /\ i <= Len(signed)
            /\ \A k \in {"account", "signature", "timestamp", "expiry_window", "agent_wallet"} :
                   Has(Envelopes[i], k)
            /\ Get(Envelopes[i], "account") = get_account(auth)
            /\ Get(Envelopes[i], "signature") = signed[i].signature
            /\ Get(Envelopes[i], "timestamp") = Get(signed[i].header, "timestamp")
            /\ Get(Envelopes[i], "expiry_window") = PyInt(5000)
            /\ Get(Envelopes[i], "expiry_window") = Get(signed[i].header, "expiry_window")
            /\ \A k \in KeySet(signed[i].payload) :
                   Has(Envelopes[i], k) /\ Get(Envelopes[i], k) = Get(signed[i].payload, k)
            /\ Get(Envelopes[i], "agent_wallet") =
                   IF is_agent_mode(auth) THEN PyStr(auth.public_key) ELSE PyNone

\* C2: every authenticated write the exchange API sends (order, each action of
\* batch_orders, cancel, update_leverage, update_margin_mode, add_margin,
\* remove_margin) is a signed envelope: with a main account set, account is the
\* main account and agent_wallet the agent's own address; without, account is
\* the signer's address and agent_wallet is null; in both it carries signature,
\* timestamp and expiry_window = 5000.
C2_SignedEnvelope ==
    auth.present /\ op.name \in {"order", "batch_orders", "cancel", "update_leverage",
                                 "update_margin_mode", "add_margin", "remove_margin"} =>
        \A i \in 1..Len(Envelopes) :
            /\ \A k \in {"account", "signature", "timestamp", "expiry_window", "agent_wallet"} :
                   Has(Envelopes[i], k)
            /\ Get(Envelopes[i], "expiry_window") = PyInt(5000)
            /\ IF Truthy(auth.main_account)
               THEN /\ Get(Envelopes[i], "account") = auth.main_account
                    /\ Get(Envelopes[i], "agent_wallet") = PyStr(auth.public_key)
               ELSE /\ Get(Envelopes[i], "account") = PyStr(auth.public_key)
                    /\ Get(Envelopes[i], "agent_wallet") = PyNone

\* C3: whatever main_account a PacificaAuth was constructed with (absent, the
\* empty string, an address), the three accessors agree on the mode:
\* is_agent_mode() is true exactly when get_account() is main_account and
\* get_agent_wallet() is the signer's own public key; otherwise get_account()
\* is the signer's public key and get_agent_wallet() is null.
C3_AccessorsAgree ==
    auth.present =>
        IF is_agent_mode(auth)
        THEN /\ get_account(auth) = auth.main_account
             /\ get_agent_wallet(auth) = PyStr(auth.public_key)
        ELSE /\ get_account(auth) = PyStr(auth.public_key)
             /\ get_agent_wallet(auth) = PyNone

\* C4: sign_message signs only when the header's key set is exactly {type,
\* timestamp, expiry_window}: otherwise it raises a validation error and signs
\* nothing; every signed message has exactly the top-level keys data,
\* expiry_window, timestamp, type, with data the supplied payload.
C4_ExactHeader ==
    op.name = "sign_message" =>
        IF KeySet(Get(op.args, "header")) = {"type", "timestamp", "expiry_window"}
        THEN /\ ~result.raised
             /\ Len(signed) = 1
             /\ Keys(signed[1].sorted_data) = <<"data", "expiry_window", "timestamp", "type">>
             /\ SameValue(Get(signed[1].sorted_data, "data"), Get(op.args, "payload"))
        ELSE result.raised /\ result.exc = "ValueError" /\ signed = <<>>

\* C5: the canonical message sign_message signs is the same for any two
\* (header, payload) inputs that hold the same keys and values and differ in
\* the insertion order of keys at any depth, dicts inside lists included; it
\* keeps the order of every list and has the keys of every level ascending.
C5_CanonicalMessage ==
    op.name = "sign_message" /\ ~result.raised =>
        /\ \A h \in Reorderings(signed[1].header), p \in Reorderings(signed[1].payload) :
               sign_message(auth, h, p).message = signed[1].message
        /\ Ascending(signed[1].sorted_data)
        /\ SameValue(signed[1].sorted_data, signed[1].data)
        /\ signed[1].message = PyText(json_dumps(signed[1].sorted_data))

\* a message was signed whose payload has, inside a list, a dict whose keys
\* were inserted in descending order, under keys inserted in descending order
C5_Witness ==
    /\ op.name = "sign_message"
    /\ pc = "returned"
    /\ Len(signed) = 1
    /\ signed[1].payload = PyDict(<<E("b", ZA), E("a", PyList(<<ZA, PyInt(3), PyInt(1)>>))>>)
    /\ Keys(signed[1].header) = <<"type", "timestamp", "expiry_window">>
    /\ signed[1].sorted_data # signed[1].data

\* C6: in order and batch_orders, sync and async, the header type signed is
\* create_limit_order exactly when the final payload has a price and
\* create_market_order exactly when it has a slippage_percent, and every
\* signed payload has exactly one of the two, whatever order_type was passed.
C6_SignatureType ==
    op.name \in OrderOps =>
        \A i \in 1..Len(signed) :
            /\ Get(signed[i].header, "type") = PyStr("create_limit_order")
                   <=> Has(signed[i].payload, "price")
            /\ Get(signed[i].header, "type") = PyStr("create_market_order")
                   <=> Has(signed[i].payload, "slippage_percent")
            /\ Has(signed[i].payload, "price") # Has(signed[i].payload, "slippage_percent")

\* C7: in order and batch_orders, sync and async, a limit order with
\* time-in-force "Alo" gives a payload with post_only = true and no
\* slippage_percent, and the payload of a market order has no tif.
C7_AloAndMarket ==
    op.name \in OrderOps =>
        \A i \in 1..Len(signed) :
            /\ TifOf(OrderTypeOf(i)) = PyStr("Alo") =>
                   /\ GetOr(signed[i].payload, "post_only", PyNone) = PyBool(TRUE)
                   /\ ~Has(signed[i].payload, "slippage_percent")
            /\ IsMarketKind(OrderTypeOf(i)) => ~Has(signed[i].payload, "tif")

\* the emitted tif the table gives for the caller's time-in-force
TifTable(tif) ==
    CASE tif \in {PyNone, PyStr("Gtc"), PyStr("GTC")} -> PyStr("GTC")
      [] tif = PyStr("Ioc") -> PyStr("IOC")
      [] tif = PyStr("Alo") -> PyStr("ALO")
      [] tif = PyStr("Tob") -> PyStr("TOB")
      [] OTHER -> PyNone

\* C8: for a limit order the emitted tif is GTC when the caller gives no
\* time-in-force and otherwise follows Gtc -> GTC, Ioc -> IOC, Alo -> ALO (with
\* post_only = true), Tob -> TOB, in order and batch_orders, sync and async;
\* the emitted tif is always one of GTC, IOC, ALO, TOB.
C8_TifTable ==
    op.name \in OrderOps =>
        \A i \in 1..Len(signed) :
            IsLimitKind(OrderTypeOf(i)) =>
                /\ GetOr(signed[i].payload, "tif", PyNone)
                       \in {PyStr("GTC"), PyStr("IOC"), PyStr("ALO"), PyStr("TOB")}
                /\ TifTable(TifOf(OrderTypeOf(i))) # PyNone =>
                       GetOr(signed[i].payload, "tif", PyNone) = TifTable(TifOf(OrderTypeOf(i)))
                /\ TifOf(OrderTypeOf(i)) = PyStr("Alo") =>
                       GetOr(signed[i].payload, "post_only", PyNone) = PyBool(TRUE)

\* C9: a legacy string order kind ("limit" or "market" in any letter case)
\* gives the same signed payloads and the same signature types as its dict
\* form ({"limit": {"tif": "GTC"}}, {"market": {}}) with the other arguments
\* the same, in order and batch_orders, sync and async; an order of any other
\* kind is rejected before anything is signed.
C9_LegacyKind ==
    op.name \in OrderOps /\ auth.present =>
        /\ SignedAs(signed) = SignedAs(Again(op.name, InDictForm(op.args)).signs)
        /\ (\E i \in 1..Len(OrderRequests) :
                ~IsLimitKind(OrderTypeOf(i)) /\ ~IsMarketKind(OrderTypeOf(i)))
               => result.raised /\ signed = <<>>

\* C10: a limit order with no price is rejected with a validation error before
\* any payload is signed or sent, in order and for every item of batch_orders;
\* no emitted limit payload has a price the caller did not supply.
C10_LimitNeedsPrice ==
    op.name \in OrderOps =>
        /\ (\E i \in 1..Len(OrderRequests) :
                IsLimitKind(OrderTypeOf(i)) /\ PriceOf(i) = PyNone)
               => result.raised /\ result.exc = "ValueError" /\ signed = <<>> /\ sent = <<>>
        /\ \A i \in 1..Len(signed) :
               Has(signed[i].payload, "price") =>
                   /\ PriceOf(i) # PyNone
                   /\ Get(signed[i].payload, "price") = str(PriceOf(i))

\* the client order id the i-th order of the call was given, None if none
CloidOf(i) == GetOr(OrderRequests[i], "cloid", PyNone)

\* the client order id in the i-th payload the call signed
SignedId(i) == Get(signed[i].payload, "client_order_id")

IsUuid(v) == v.t = "str" /\ v.s = "uuid4"

CancelOps == {"cancel", "cancel_async"}

BatchCancelOps == {"batch_cancel", "batch_cancel_async"}

\* C12: a cancel given neither an order id nor a client order id raises a
\* validation error with nothing signed and nothing sent, and every cancel
\* request that goes out, from cancel or from a batch_cancel, holds exactly one
\* of order_id and client_order_id.
C12_CancelNeedsOneId ==
    /\ op.name \in CancelOps /\ Get(op.args, "oid") = PyNone /\ Get(op.args, "cloid") = PyNone
           => /\ pc = "raised" /\ result.exc = "ValueError"
              /\ signed = <<>> /\ sent = <<>>
    /\ op.name \in CancelOps \cup BatchCancelOps =>
           \A i \in 1..Len(sent) :
               Has(sent[i].data, "order_id") # Has(sent[i].data, "client_order_id")

\* the async cancel was called with neither identifier and raised
C12_Witness ==
    /\ op.name = "cancel_async" /\ pc = "raised" /\ result.exc = "ValueError"
    /\ Get(op.args, "oid") = PyNone /\ Get(op.args, "cloid") = PyNone

\* the cancel requests of the call
CancelRequests == Items(Get(op.args, "cancels"))

\* the request names an order: it holds an order id or a client order id
NamesAnOrder(cancel_req) ==
    \/ Truthy(GetOr(cancel_req, "oid", PyNone))
    \/ Truthy(GetOr(cancel_req, "cloid", PyNone))

\* the upstream took the request
Accepts(upstream) ==
    /\ ~upstream.network /\ upstream.status < 400
    /\ upstream.body.t = "dict" /\ GetOr(upstream.body, "success", PyNone) = PyBool(TRUE)

\* the outcome of the i-th cancel request of the call
CancelOutcome(i) ==
    PyStr(IF NamesAnOrder(CancelRequests[i]) /\ Accepts(op.upstream[i])
          THEN "success" ELSE "error")

\* the statuses list of the result of a batch call
Statuses == Items(Get(Get(Get(result.value, "response"), "data"), "statuses"))

Finished == pc \in {"returned", "raised"}

\* C13: batch_cancel, sync and async, over N cancel requests returns N
\* statuses, the i-th being "success" or "error" as request i went, in whatever
\* order the cancels completed and whichever of them failed.
C13_BatchCancelStatuses ==
    op.name \in BatchCancelOps /\ Finished =>
        /\ pc = "returned"
        /\ Len(Statuses) = Len(CancelRequests)
        /\ \A i \in 1..Len(CancelRequests) : Statuses[i] = CancelOutcome(i)

\* the actions of the batch request the call sent
Actions == Items(Get(sent[1].data, "actions"))

\* the symbol the i-th order of the call names
SymbolOf(i) ==
    IF Truthy(GetOr(OrderRequests[i], "name", PyNone))
    THEN Get(OrderRequests[i], "name")
    ELSE GetOr(OrderRequests[i], "coin", PyNone)

\* the upstream's results for the batch, in the upstream's order
UpstreamResults == Items(Get(Get(op.upstream.body, "data"), "results"))

\* C14: batch_orders over N orders sends one request of N Create actions, each
\* signed on its own and in the order of the input, and returns N statuses,
\* the i-th resting or error as the i-th order went, whatever the upstream
\* answers to the batch.
C14_BatchOrdersStatuses ==
    op.name = "batch_orders" /\ Finished =>
        /\ pc = "returned"
        /\ Len(sent) = 1
        /\ Len(Actions) = Len(OrderRequests)
        /\ Len(signed) = Len(OrderRequests)
        /\ \A i \in 1..Len(OrderRequests) :
               /\ Get(Actions[i], "type") = PyStr("Create")
               /\ Get(Get(Actions[i], "data"), "symbol") = SymbolOf(i)
               /\ Get(signed[i].payload, "symbol") = SymbolOf(i)
               /\ Get(Get(Actions[i], "data"), "signature") = signed[i].signature
        /\ Len(Statuses) = Len(OrderRequests)
        /\ \A i \in 1..Len(OrderRequests) :
               Has(Statuses[i], "resting")
                   <=> Truthy(GetOr(UpstreamResults[i], "success", PyNone))

\* orders with nothing wrong with them: a priced GTC limit order, with or
\* without a client order id of the caller
SoundOrders == {BaseItem, Put(BaseItem, "cloid", PyStr("my-id"))}

\* the j-th order of the batch is among the actions that were sent
OrderSubmitted(j) ==
    /\ Len(sent) = 1
    /\ \E i \in 1..Len(Actions) :
           /\ Get(Get(Actions[i], "data"), "symbol") = SymbolOf(j)
           /\ Get(Get(Actions[i], "data"), "amount") = str(Get(OrderRequests[j], "sz"))

\* the symbol the j-th cancel request of the batch names, None if none
CancelSymbolOf(j) ==
    IF Has(CancelRequests[j], "name") THEN Get(CancelRequests[j], "name")
    ELSE GetOr(CancelRequests[j], "coin", PyNone)

\* a cancel for the order of the j-th cancel request was sent
CancelSubmitted(j) ==
    \E i \in 1..Len(sent) :
        /\ Get(sent[i].data, "symbol") = CancelSymbolOf(j)
        /\ \/ /\ Has(sent[i].data, "order_id")
              /\ Get(sent[i].data, "order_id") = GetOr(CancelRequests[j], "oid", PyNone)
           \/ /\ Has(sent[i].data, "client_order_id")
              /\ Get(sent[i].data, "client_order_id") = GetOr(CancelRequests[j], "cloid", PyNone)

\* C15: in batch_orders and batch_cancel, sync and async, an item that fails
\* never keeps another item from being submitted: the call raises only out of
\* the transport, every order and every cancel request with nothing wrong
\* with it is submitted whatever the other items are, and a cancel request
\* that names no order has "error" in its own slot.
C15_ItemIsolation ==
    /\ op.name \in BatchOps \cup BatchCancelOps /\ pc = "raised" => sent # <<>>
    /\ op.name \in BatchOps /\ Finished =>
           \A j \in 1..Len(OrderRequests) :
               OrderRequests[j] \in SoundOrders => OrderSubmitted(j)
    /\ op.name \in BatchCancelOps /\ Finished =>
           \A j \in 1..Len(CancelRequests) :
               /\ NamesAnOrder(CancelRequests[j]) /\ CancelSymbolOf(j) # PyNone
                      => CancelSubmitted(j)
               /\ pc = "returned" /\ ~NamesAnOrder(CancelRequests[j])
                      => Statuses[j] = PyStr("error")

WriteOps == OrderOps \cup CancelOps

\* C16: a call of order, cancel or batch_orders puts at most one request on
\* the transport, whether the upstream answers, rejects or cannot be reached,
\* and a batch_cancel at most one for each of its cancel requests: nothing is
\* sent again.
C16_NoRetry ==
    /\ op.name \in WriteOps => Len(sent) <= 1
    /\ op.name \in BatchCancelOps => Len(sent) <= Len(CancelRequests)

\* an order whose request could not reach the upstream: sent once, then raised
C16_Witness ==
    /\ op.name = "order" /\ pc = "raised" /\ op.upstream.network
    /\ Len(sent) = 1

-----------------------------------------------------------------------------
(* The reads.                                                               *)

\* the i-th fetch of the call failed: no answer, or an HTTP error status
Failed(i) == op.upstream[i].network \/ op.upstream[i].status >= 400

\* the response the i-th fetch leaves when a failed fetch is replaced by default
Fetched(i, default) == IF Failed(i) THEN default ELSE op.upstream[i].body

UserStateReads == {"user_state", "user_state_async", "client_user_state"}

CompositeReads == UserStateReads \cup {"get_account_summary", "get_market_summary"}

\* the user state made of the four fetches, each failed one replaced by its
\* zero or empty default
DefaultedUserState ==
    transform_user_state(Fetched(1, ZeroAccount),
        IF Truthy(Get(Fetched(2, EmptyList), "data"))
        THEN with_leverage(Fetched(2, EmptyList), Get(Fetched(3, EmptyDict), "data"),
                           Get(Fetched(4, EmptyList), "data"))
        ELSE Fetched(2, EmptyList))

DefaultedAccountSummary ==
    PyDict(<<
        E("user_state", DefaultedUserState),
        E("open_orders", transform_open_orders(Fetched(5, EmptyList))),
        E("user_fills", transform_user_fills(Fetched(6, EmptyList), PyNone)),
        E("user_funding", transform_funding_history(Fetched(7, EmptyList))) >>)

DefaultedMarketSummary ==
    PyDict(<<
        E("meta", IF Failed(1) THEN PyDict(<<>>) ELSE transform_meta(op.upstream[1].body)),
        E("all_mids", transform_all_mids(Fetched(2, EmptyList))),
        E("funding_rates", transform_funding_rates(Fetched(3, EmptyList))),
        E("open_interest", transform_open_interest(Fetched(4, EmptyList))) >>)

\* C17: user_state (sync InfoAPI, InfoAsyncAPI, AsyncPacificaClient),
\* get_account_summary and get_market_summary return for every combination
\* of failures of their fetches, an account-not-found answer to the account
\* or the positions fetch included: the call never raises, and its result is
\* the one made with every failed fetch replaced by its zero/empty default.
C17_CompositeReadsReturn ==
    (pc # "idle" /\ op.name \in CompositeReads) =>
        /\ pc = "returned"
        /\ op.name \in UserStateReads => result.value = DefaultedUserState
        /\ op.name = "get_account_summary" => result.value = DefaultedAccountSummary
        /\ op.name = "get_market_summary" => result.value = DefaultedMarketSummary

\* the positions the upstream answered the positions fetch with
PositionsFetched == Items(Get(Fetched(2, EmptyList), "data"))

\* the account's own setting of a leverage for the symbol, None when it has none
AccountSetting(symbol) == settings_leverage(Get(Fetched(3, EmptyDict), "data"), symbol)

\* the maximum leverage of the market of the symbol, None when none is listed
MarketMaximum(symbol) ==
    IF \E m \in MarketsData : Fetched(4, EmptyList) = Ok(m).body
    THEN GetOr(max_leverage_map(Items(Get(Fetched(4, EmptyList), "data")), 1, PyDict(<<>>)),
               symbol.s, PyNone)
    ELSE PyNone

\* the leverage the i-th position is to show: its own, else the account's
\* setting, else the market's maximum, else none attached, which the
\* transformer shows as its default of 20
ResolvedLeverage(i) ==
    CASE Has(PositionsFetched[i], "leverage") -> Get(PositionsFetched[i], "leverage")
      [] AccountSetting(Get(PositionsFetched[i], "symbol")) # PyNone ->
           AccountSetting(Get(PositionsFetched[i], "symbol"))
      [] MarketMaximum(Get(PositionsFetched[i], "symbol")) # PyNone ->
           MarketMaximum(Get(PositionsFetched[i], "symbol"))
      [] OTHER -> PyInt(20)

\* the leverage the returned user state shows for its i-th position
ShownLeverage(i) ==
    Get(Get(Get(Items(Get(result.value, "assetPositions"))[i], "position"), "leverage"),
        "value")

\* C18: in user_state the leverage of each position is the first available
\* of (a) the setting the position itself carries, (b) the account's setting
\* for the symbol, (c) the market's maximum leverage; an account setting of 15
\* wins over a market maximum of 50; when none resolves no leverage is
\* attached to the position.
C18_LeverageResolution ==
    (pc = "returned" /\ op.name \in UserStateReads) =>
        \A i \in 1..Len(PositionsFetched) : ShownLeverage(i) = ResolvedLeverage(i)

FundingReads ==
    {"user_funding", "user_funding_async", "funding_rates", "funding_rates_async",
     "open_interest", "open_interest_async"}

\* the upstream fetch of the call failed: no answer, an HTTP error status, or
\* a body that says success: false
FetchFailed ==
    \/ Failed(1)
    \/ ~Truthy(GetOr(op.upstream[1].body, "success", PyBool(TRUE)))

\* the transformed answer of the upstream
Transformed ==
    CASE op.name \in {"user_funding", "user_funding_async"} ->
           transform_funding_history(op.upstream[1].body)
      [] op.name \in {"funding_rates", "funding_rates_async"} ->
           transform_funding_rates(op.upstream[1].body)
      [] op.name \in {"open_interest", "open_interest_async"} ->
           transform_open_interest(op.upstream[1].body)

\* the empty result of the call: the empty map for open_interest, else the
\* empty list
EmptyResult ==
    IF op.name \in {"open_interest", "open_interest_async"} THEN PyDict(<<>>)
    ELSE PyList(<<>>)

EventsListed == Items(Get(op.upstream[1].body, "data"))

TimeOf(event) == Get(event, "created_at").n

\* the event is of an allowed kind and inside the window of the call
InWindow(event) ==
    /\ Get(event, "event_type").s \in LedgerKinds
    /\ TimeOf(event) >= Get(op.args, "startTime").n
    /\ Get(op.args, "endTime") = PyNone \/ TimeOf(event) <= Get(op.args, "endTime").n

\* the updates of the listed events inside the window, in the listed order
UpdatesInWindow ==
    PyList([i \in 1..Len(SelectSeq(EventsListed, InWindow)) |->
                ledger_update_of(SelectSeq(EventsListed, InWindow)[i])])

\* C20: user_non_funding_ledger_updates returns exactly the balance events
\* of an allowed kind whose time is not before startTime (and not after
\* endTime when given), whatever order the upstream lists them in: an event
\* inside the window is never dropped because an event listed before it
\* precedes the start bound.
C20_LedgerWindow ==
    (pc = "returned" /\ op.name = "user_non_funding_ledger_updates" /\ ~Failed(1)) =>
        result.value = UpdatesInWindow

-----------------------------------------------------------------------------
(* The transformers.                                                        *)

\* the events handed to transform_non_funding_ledger_updates
EventsGiven == Items(Get(op.args, "events"))

\* the events of a kind that is a ledger update, in the order given
LedgerEventsGiven ==
    SelectSeq(EventsGiven, LAMBDA e : Get(e, "event_type").s \in
        {"deposit", "deposit_release", "withdraw", "subaccount_transfer"})

\* the type a record reports for an event of the kind
ReportedType(kind) ==
    CASE kind = "deposit_release" -> "deposit"
      [] kind = "subaccount_transfer" -> "transfer"
      [] OTHER -> kind

\* C21: transform_non_funding_ledger_updates returns one record for every
\* input event of kind deposit, deposit_release, withdraw or
\* subaccount_transfer and none for any other kind (such as fee), in input
\* order, deposit_release reported as deposit and subaccount_transfer as
\* transfer; 5 events with one fee event give exactly 4 records.
C21_LedgerRecords ==
    (pc = "returned" /\ op.name = "transform_non_funding_ledger_updates") =>
        /\ Len(Items(result.value)) = Len(LedgerEventsGiven)
        /\ \A j \in 1..Len(LedgerEventsGiven) :
             /\ Get(Items(result.value)[j], "time") = Get(LedgerEventsGiven[j], "created_at")
             /\ Get(Items(result.value)[j], "hash") = Get(LedgerEventsGiven[j], "tx_hash")
             /\ Get(Get(Items(result.value)[j], "delta"), "type") =
                    PyStr(ReportedType(Get(LedgerEventsGiven[j], "event_type").s))
             /\ Get(Get(Items(result.value)[j], "delta"), "usdc") =
                    Get(LedgerEventsGiven[j], "amount")

\* five events of five kinds, the fee among them, gave four records
C21_Witness ==
    /\ pc = "returned"
    /\ op.name = "transform_non_funding_ledger_updates"
    /\ Len(EventsGiven) = 5
    /\ {Get(EventsGiven[i], "event_type").s : i \in 1..5} = EventKinds
    /\ Len(Items(result.value)) = 4

\* the tag has the effect of a buy: "bid", a long-open or a short-close, in
\* either naming of the compound tag
BuyEffect(tag) == tag \in {"bid", "long_open", "open_long", "short_close", "close_short"}

\* the trades transform_user_fills was given that pass its oid filter
TradesGiven ==
    SelectSeq(Items(Get(Get(op.args, "trades_response"), "data")),
              LAMBDA t : Get(op.args, "oid") = PyNone \/ Get(t, "order_id") = Get(op.args, "oid"))

\* C22: in the trade/fill history context a trade tag maps to the buy letter
\* "B" exactly when it is "bid", a long-open or a short-close, and to the
\* sell letter otherwise, in transform_user_fills and in
\* transform_side(context="trade"), for either naming of the compound tag.
C22_TradeSide ==
    /\ (pc = "returned" /\ op.name = "transform_side"
        /\ Get(op.args, "context") = PyStr("trade")) =>
            result.value = PyStr(IF BuyEffect(Get(op.args, "side").s) THEN "B" ELSE "S")
    /\ (pc = "returned" /\ op.name = "transform_user_fills") =>
            /\ Len(Items(result.value)) = Len(TradesGiven)
            /\ \A j \in 1..Len(TradesGiven) :
                 Get(Items(result.value)[j], "side") =
                     PyStr(IF BuyEffect(Get(TradesGiven[j], "side").s) THEN "B" ELSE "A")

\* the raw levels of a side of the book the transformer was given
RawLevels(side) == Items(Get(Get(Get(op.args, "book_response"), "data"), side))

\* the raw shape the transformer of the call supports: AccountTransformer
\* reads an object per level, MarketTransformer a [price, size] pair
SupportedShape == IF op.name = "account_transform_l2_book" THEN "dict" ELSE "list"

\* every raw level of the book is of the shape the transformer supports
InSupportedShape ==
    \A i \in 1..Len(RawLevels("bids") \o RawLevels("asks")) :
        (RawLevels("bids") \o RawLevels("asks"))[i].t = SupportedShape

\* the price and the size of a raw level of either shape
RawPrice(level) == IF level.t = "dict" THEN Get(level, "price") ELSE Items(level)[1]

RawSize(level) == IF level.t = "dict" THEN Get(level, "size") ELSE Items(level)[2]

\* the levels of a side in the returned book: AccountTransformer returns
\* [[bids, asks]], MarketTransformer [bids followed by asks]
LevelsReturned(side) ==
    IF op.name = "account_transform_l2_book"
    THEN Items(Items(Items(Get(result.value, "levels"))[1])[IF side = "bids" THEN 1 ELSE 2])
    ELSE SubSeq(Items(Items(Get(result.value, "levels"))[1]),
                IF side = "bids" THEN 1 ELSE Len(RawLevels("bids")) + 1,
                IF side = "bids" THEN Len(RawLevels("bids"))
                ELSE Len(RawLevels("bids")) + Len(RawLevels("asks")))

\* C23: for both supported raw order-book shapes (an object per level with
\* price and size, and a [price, size] pair), transform_l2_book gives the
\* i-th bid level and the i-th ask level (from 1, in input order) the rank
\* n = i together with the price and the size of that raw level.
C23_BookLevels ==
    (pc # "idle" /\ op.name \in {"transform_l2_book", "account_transform_l2_book"}
     /\ InSupportedShape) =>
        /\ pc = "returned"
        /\ \A side \in {"bids", "asks"} :
             /\ Len(LevelsReturned(side)) = Len(RawLevels(side))
             /\ \A i \in 1..Len(RawLevels(side)) :
                  /\ Get(LevelsReturned(side)[i], "n") = PyInt(i)
                  /\ Get(LevelsReturned(side)[i], "px") = RawPrice(RawLevels(side)[i])
                  /\ Get(LevelsReturned(side)[i], "sz") = RawSize(RawLevels(side)[i])

-----------------------------------------------------------------------------
(* The numbers in the payloads.                                             *)

\* the strings of the model that carry an exponent marker: a digit, e, a
\* sign and the exponent
ExponentStrings ==
    { d \o "e" \o sign \o pad \o ToString(k) :
        d \in {"1", "4"}, sign \in {"-", "+"}, pad \in {"", "0"}, k \in 1..20 }

NumberFields == {"amount", "price", "slippage_percent"}

\* the calls that emit an order or a margin payload
NumberOps == OrderOps \cup BatchOps \cup {"add_margin", "remove_margin"}

\* C24: the amount, price and slippage strings placed in every emitted order
\* or margin payload are fixed-point decimal strings with no exponent
\* marker, for every numeric input, fractions below 1e-4 such as 0.00004 and
\* 1e-8 included.
C24_FixedPointNumbers ==
    (op.name \in NumberOps) =>
        /\ \A i \in 1..Len(signed) : \A f \in NumberFields :
               Has(signed[i].payload, f) => Get(signed[i].payload, f).s \notin ExponentStrings
        /\ \A i \in 1..Len(sent) : \A f \in NumberFields :
               Has(sent[i].data, f) => Get(sent[i].data, f).s \notin ExponentStrings

-----------------------------------------------------------------------------
(* The async exchange API against the sync one.                            *)

\* what the sync operation of the same name does with the call about to be made
SyncOutcome(name, args, upstream) ==
    IF name = "order_async" THEN order(auth, args, now, upstream, uuids)
    ELSE batch_orders(auth, args, now, upstream, uuids)

\* the calls the async API takes in place of order and batch_orders
AsyncOrderOps == {"order_async", "batch_orders_async"}

\* the step is an async order or batch made with a signing key, for an intent
\* the sync API signs and sends
AsyncOrderStep ==
    /\ pc = "idle"
    /\ op'.name \in AsyncOrderOps
    /\ auth.present
    /\ SyncOutcome(op'.name, op'.args, op'.upstream).signs # <<>>
    /\ SyncOutcome(op'.name, op'.args, op'.upstream).sends # <<>>

\* C25: for every order intent the async exchange API's order and
\* batch_orders sign the same payload fields under the same signature type
\* and send the same request as the sync exchange API's order and
\* batch_orders.
C25_AsyncMatchesSync ==
    [][AsyncOrderStep =>
        /\ signed' = SyncOutcome(op'.name, op'.args, op'.upstream).signs
        /\ sent' = SyncOutcome(op'.name, op'.args, op'.upstream).sends]_vars

-----------------------------------------------------------------------------
(* Cancelling every open order.                                             *)

\* cancel_all_orders has ended and its fetch of the open orders succeeded
CancelAllEnded ==
    /\ op.name = "cancel_all_orders"
    /\ pc \in {"returned", "raised"}
    /\ ~op.upstream.network
    /\ op.upstream.status < 400
    /\ Truthy(GetOr(op.upstream.body, "success", PyBool(TRUE)))

\* the open orders the upstream listed whose coin passes the filter of the call
MatchingOrders ==
    SelectSeq(DataItems(op.upstream.body),
              LAMBDA o : \/ Get(op.args, "coins") = PyNone
                         \/ \E i \in 1..Len(Items(Get(op.args, "coins"))) :
                                Items(Get(op.args, "coins"))[i] = Get(o, "symbol"))

\* the cancels the call sent
CancelsSent == SelectSeq(sent, LAMBDA r : r.endpoint = "/orders/cancel")

\* how many cancels were sent for the open order o
CancelsFor(o) ==
    Cardinality({j \in 1..Len(CancelsSent) :
                    /\ GetOr(CancelsSent[j].data, "symbol", PyNone) = Get(o, "symbol")
                    /\ GetOr(CancelsSent[j].data, "order_id", PyNone) = Get(o, "order_id")})

\* the statuses of the batchCancel response the call returned
StatusesReturned == Items(Get(Get(Get(result.value, "response"), "data"), "statuses"))

\* C26: cancel_all_orders fetches the open orders, issues exactly one cancel
\* for every open order whose coin passes the optional coins filter (every
\* open order when there is no filter) and none for any other order, and
\* returns one status per cancelled order; with no matching open order it
\* returns an empty status list without sending any cancel.
C26_CancelAllOrders ==
    CancelAllEnded =>
        /\ pc = "returned"
        /\ Len(CancelsSent) = Len(MatchingOrders)
        /\ \A i \in 1..Len(MatchingOrders) : CancelsFor(MatchingOrders[i]) = 1
        /\ Len(StatusesReturned) = Len(MatchingOrders)

-----------------------------------------------------------------------------
(* Retrying with backoff.                                                   *)

RetryStarted == op.name = "retry_with_backoff" /\ pc \in {"looping", "sleeping"}

RetryEnded == op.name = "retry_with_backoff" /\ pc \in {"returned", "raised"}

\* the k-th invocation of func failed: it raised an exception the loop retries on
AttemptFailed(k) == retry.calls[k].raised /\ retry.calls[k].exc # "CancelledError"

\* the delay the claim gives for the wait after the k-th failed attempt, k from 0
DelayAfter(k) ==
    IF Get(op.args, "base_delay").n * (2 ^ k) <= Get(op.args, "max_delay").n
    THEN Get(op.args, "base_delay").n * (2 ^ k)
    ELSE Get(op.args, "max_delay").n

\* the attempts after which the call waits: the failed ones but the last one allowed
AttemptsWaitedAfter ==
    {k \in 1..Len(retry.calls) : AttemptFailed(k) /\ k < Get(op.args, "max_retries").n}

RetryBounded ==
    /\ Len(retry.calls) <= Get(op.args, "max_retries").n
    /\ \A k \in 1..(Len(retry.calls) - 1) : AttemptFailed(k)
    /\ (pc = "returned") =>
           /\ retry.calls # <<>>
           /\ ~retry.calls[Len(retry.calls)].raised
           /\ result = retry.calls[Len(retry.calls)]

RetryWaits ==
    /\ Len(retry.sleeps) = Cardinality(AttemptsWaitedAfter)
    /\ \A k \in 1..Len(retry.sleeps) : retry.sleeps[k] = DelayAfter(k - 1)

RetryRaisesLast ==
    (pc = "raised" /\ retry.calls # <<>>) =>
        /\ retry.calls[Len(retry.calls)].raised
        /\ result = retry.calls[Len(retry.calls)]

-----------------------------------------------------------------------------
(* The status of an account update.                                         *)

UpdateOps == {"update_leverage", "update_margin_mode", "add_margin", "remove_margin"}

\* the account update returned: its request went through the transport
\* layer without an error being raised
UpdateAccepted == op.name \in UpdateOps /\ pc = "returned"

\* C28: update_leverage, update_margin_mode, add_margin and remove_margin
\* return status "ok" exactly when the upstream request completed without the
\* transport layer raising, and never status "err" for a request the
\* transport layer accepted as successful, a 2xx response body without a
\* success field included.
C28_UpdateStatus ==
    UpdateAccepted => Get(result.value, "status") = PyStr("ok")

-----------------------------------------------------------------------------
(* bulk_orders and the caller's order dicts.                                *)

BulkOps == {"bulk_orders", "bulk_orders_async"}

\* the order dicts as the caller passed them
GivenOrders == Items(Get(op.args, "order_requests"))

\* the builder the i-th order is to be placed with: its own, else the global
\* one, else none
BuilderFor(i) ==
    CASE Has(GivenOrders[i], "builder") -> Get(GivenOrders[i], "builder")
      [] Truthy(Get(op.args, "builder")) -> Get(op.args, "builder")
      [] OTHER -> PyNone

\* the builder code signed for the i-th order, None where there is none
BuilderCodeSigned(i) == GetOr(signed[i].payload, "builder_code", PyNone)

\* every order was signed
AllSigned == auth.present /\ GivenOrders # <<>> /\ Len(signed) = Len(GivenOrders)

BuilderApplied ==
    AllSigned =>
        \A i \in 1..Len(GivenOrders) :
            BuilderCodeSigned(i) = GetOr(BuilderFor(i), "b", PyNone)

\* C30: bulk_orders with a global builder applies that builder to exactly the
\* orders that carry no builder of their own and leaves unchanged the
\* order_requests list and the order dicts the caller passed in: after the
\* call each caller-owned dict has the same keys and values as before.
C30_BulkOrdersFrame ==
    (op.name \in BulkOps) => (BuilderApplied /\ owned = GivenOrders)

-----------------------------------------------------------------------------
(* Timeouts and close in OptimizedClient.                                   *)

\* the call of coroutine i ended with a timeout error in the calling thread
\* and its request is not out
TimedOutUnsent(i) == _loop.coros[i].timed_out => _loop.coros[i].state = "scheduled"

\* once close() has returned no coroutine moves
IdleOnceClosed ==
    _loop.closed =>
        \A i \in 1..Len(_loop.coros) : _loop'.coros[i].state = _loop.coros[i].state

\* C29: when a call made through OptimizedClient._run_async ends with a
\* timeout error in the calling thread, the underlying action has not been
\* sent and is not sent afterwards by the background event loop; and once
\* close() has returned, no coroutine submitted earlier or later runs on
\* that loop.
C29_TimeoutAndClose ==
    /\ [](\A i \in 1..Len(_loop.coros) : TimedOutUnsent(i))
    /\ [][IdleOnceClosed]_vars

====
